---------------------------- MODULE Spec2Model ----------------------------
(***************************************************************************)
(* Model of the student dashboard's schedule / course resolution           *)
(* (StudentDashboard, src/unnamed/part_000).                               *)
(*                                                                         *)
(* Conventions of the model                                                *)
(*  - A JavaScript string is a sequence of one-character strings, so that  *)
(*    split, parsing and formatting are computed and not assumed.          *)
(*  - A loosely typed JavaScript value is a record tagged by its type      *)
(*    (field t): undefined, null, string, number, boolean, Date,           *)
(*    Timestamp (a store timestamp with the accessor toDate) and object    *)
(*    (a plain map, here one carrying only an epoch-seconds field).        *)
(*  - Instants are counted in whole minutes since the epoch (getTime() is  *)
(*    60000 times the model's value): every modelled input has a whole     *)
(*    minute resolution, so order and equality of instants are preserved.  *)
(*  - NaN is a distinguished value outside the range of the instants.      *)
(***************************************************************************)
EXTENDS Integers, Sequences, FiniteSets

-----------------------------------------------------------------------------
(* Bounds of the model *)

MaxEnrollments == 3      \* enrollment documents in the store
MaxSchedules == 3        \* schedule documents in the store
MaxSortSchedules == 3    \* schedule documents where the dates vary
MaxTodaySchedules == 2   \* schedule documents where the day varies
MaxAuthChanges == 1      \* changes of the authentication context
MaxMaterials == 3        \* material documents in the store
MaxSelections == 2       \* selections of a module by the user
MaxUpdates == 1          \* clicks on Update Module Assignments
MaxModules == 3          \* module documents where the collection varies

-----------------------------------------------------------------------------
(* State *)

VARIABLES
  \* the environment of the page
  tzOffset,            \* local time zone: minutes east of UTC
  now,                 \* the current instant (new Date())
  nodeEnvDevelopment,  \* process.env.NODE_ENV === "development"
  \* the document store (read by the dashboard, never written by it)
  enrollmentsCol,      \* sequence of enrollment documents
  coursesCol,          \* sequence of course documents
  modulesCol,          \* sequence of module documents
  schedulesCol,        \* sequence of schedule documents
  \* the authentication context
  userData,            \* 0: absent; k > 0: an object, a new one at each change
  currentUser,         \* the uid of currentUser, or NoUser
  authChanges,         \* the number of changes of the context so far
  \* React state of StudentDashboard
  isAuthenticated,
  schedules,
  schedulesLoading,
  enrolledCourses,
  coursesLoading,
  \* the notification context
  notifications,       \* the messages passed to showNotification, in order
  \* effects and asynchronous functions in flight
  committed,           \* the dependency values seen by the last commit
  tasks,               \* the started asynchronous function instances
  \* the last rendering of the dashboard section
  rendered,
  \* the date normalizer taken alone
  dateValue,           \* the argument of parseDateToISO
  parsed,              \* what the call did
  \* the store's materials and the state of MaterialsViewer
  materialsCol,        \* sequence of raw material documents
  role,                \* the role property: "student" or "lecturer"
  viewingCourseId,     \* the course viewed, EmptyId if none
  modules,
  materials,
  loading,
  selectedModule,      \* the id of the module selected, EmptyId if none
  selections,          \* the number of selections of the user so far
  viewerCommitted,     \* the dependency values seen by the viewer's commit
  viewerTasks,         \* the started fetches of the viewer
  \* the material adapter taken alone
  rawMaterial,         \* a raw material document
  adaptedMaterial,     \* the Material made of it
  \* navigation of the dashboard
  activeSection,       \* the section shown: "dashboard", "materials", ...
  localStorage,        \* the items viewingCourseId and viewingModuleId
  \* NotificationProvider under its timers
  notificationList,    \* its state: the notifications not yet removed
  timers,              \* the pending timers, in the order of their creation
  clock,               \* Date.now(), in milliseconds
  calls                \* the number of calls of showNotification so far

vars == <<tzOffset, now, nodeEnvDevelopment, enrollmentsCol, coursesCol,
          modulesCol, schedulesCol, userData, currentUser, authChanges,
          isAuthenticated,
          schedules, schedulesLoading, enrolledCourses, coursesLoading,
          notifications, committed, tasks, rendered, dateValue, parsed,
          materialsCol, role, viewingCourseId, modules, materials, loading,
          selectedModule, selections, viewerCommitted, viewerTasks,
          rawMaterial, adaptedMaterial, activeSection, localStorage,
          notificationList, timers, clock, calls>>

envVars == <<tzOffset, now, nodeEnvDevelopment>>
storeVars == <<enrollmentsCol, coursesCol, modulesCol, schedulesCol,
               materialsCol>>
authVars == <<userData, currentUser, authChanges>>
normalizerVars == <<dateValue, parsed>>
dashboardVars == <<isAuthenticated, schedules, schedulesLoading,
                   enrolledCourses, coursesLoading, committed, tasks,
                   rendered>>
viewerVars == <<role, viewingCourseId, modules, materials, loading,
                selectedModule, selections, viewerCommitted, viewerTasks>>
adapterVars == <<rawMaterial, adaptedMaterial>>
navVars == <<activeSection, localStorage>>
notifierVars == <<notificationList, timers, clock, calls>>

-----------------------------------------------------------------------------
(* JavaScript values *)

Undefined == [t |-> "undefined"]
Null == [t |-> "null"]
Str(s) == [t |-> "string", s |-> s]
Num(n) == [t |-> "number", n |-> n]
NativeDate(min) == [t |-> "Date", min |-> min]
Timestamp(sec) == [t |-> "Timestamp", seconds |-> sec]
SecondsObject(sec) == [t |-> "object", seconds |-> sec]

NaN == -2000000000
IsNaN(x) == x = NaN

MinutesPerDay == 1440

-----------------------------------------------------------------------------
(* Strings: String.prototype.split, digits, zero padding *)

Digits == <<"0", "1", "2", "3", "4", "5", "6", "7", "8", "9">>
IsDigit(c) == \E i \in 1..10 : Digits[i] = c
DigitVal(c) == (CHOOSE i \in 1..10 : Digits[i] = c) - 1

\* the positions of the separator ch in s
SepPositions(s, ch) == {i \in 1..Len(s) : s[i] = ch}

\* s.split(ch)[0]: the part of s before the first ch (all of s if none)
SplitHead(s, ch) ==
  IF SepPositions(s, ch) = {} THEN s
  ELSE LET p == CHOOSE i \in SepPositions(s, ch) :
                  \A j \in SepPositions(s, ch) : i <= j
       IN SubSeq(s, 1, p - 1)

\* s.split(ch).length: one more than the number of separators
SplitLength(s, ch) == Cardinality(SepPositions(s, ch)) + 1

AllDigits(s, from, to) == \A i \in from..to : IsDigit(s[i])

RECURSIVE ToNumber(_, _, _)
ToNumber(s, from, to) ==
  IF to < from THEN 0
  ELSE 10 * ToNumber(s, from, to - 1) + DigitVal(s[to])

Pad2(n) == <<Digits[((n \div 10) % 10) + 1], Digits[(n % 10) + 1]>>
Pad4(n) == Pad2(n \div 100) \o Pad2(n % 100)

-----------------------------------------------------------------------------
(* The calendar of the Date built-in (proleptic Gregorian, UTC) *)

IsLeap(y) == (y % 4 = 0 /\ y % 100 # 0) \/ y % 400 = 0

DaysInMonth(y, m) ==
  CASE m \in {1, 3, 5, 7, 8, 10, 12} -> 31
    [] m \in {4, 6, 9, 11} -> 30
    [] OTHER -> IF IsLeap(y) THEN 29 ELSE 28

\* days since 1970-01-01 of the civil date y-m-d: the days of the era of
\* 400 years, of the year of the era (years begin in March) and of the year
DaysOfEra(era, yoe, doy) ==
  era * 146097 + yoe * 365 + yoe \div 4 - yoe \div 100 + doy - 719468

DaysOfShiftedYear(yy, mp, d) ==
  DaysOfEra(yy \div 400, yy % 400, (153 * mp + 2) \div 5 + d - 1)

DaysFromCivil(y, m, d) ==
  DaysOfShiftedYear(IF m <= 2 THEN y - 1 ELSE y,
                    IF m > 2 THEN m - 3 ELSE m + 9, d)

\* the civil date <<y, m, d>> of a day number, by the inverse steps
CivilOfMonth(y, doy, mp) ==
  <<y + (IF mp >= 10 THEN 1 ELSE 0),
    IF mp < 10 THEN mp + 3 ELSE mp - 9,
    doy - (153 * mp + 2) \div 5 + 1>>

CivilOfDayOfYear(y, doy) == CivilOfMonth(y, doy, (5 * doy + 2) \div 153)

CivilOfYearOfEra(era, doe, yoe) ==
  CivilOfDayOfYear(yoe + era * 400,
                   doe - (365 * yoe + yoe \div 4 - yoe \div 100))

CivilOfEra(era, doe) ==
  CivilOfYearOfEra(era, doe,
    (doe - doe \div 1460 + doe \div 36524 - doe \div 146096) \div 365)

CivilFromDays(z) ==
  CivilOfEra((z + 719468) \div 146097, (z + 719468) % 146097)

\* "YYYY-MM-DD" and "HH:MM" as strings
DateStr(y, m, d) == Pad4(y) \o <<"-">> \o Pad2(m) \o <<"-">> \o Pad2(d)
TimeStr(h, mi) == Pad2(h) \o <<":">> \o Pad2(mi)

\* Date.prototype.toISOString().split("T")[0] of a valid instant
DateStrOf(civil) == DateStr(civil[1], civil[2], civil[3])
ISODatePart(min) == DateStrOf(CivilFromDays(min \div MinutesPerDay))

-----------------------------------------------------------------------------
(* Date.parse of a string: the ISO formats of the language standard.        *)
(* A date-only form is UTC, a date-time form without offset is local time,  *)
(* a trailing Z is UTC; an illegal field or any other text gives NaN (the   *)
(* input sets hold no text whose parsing differs between engines).          *)

ValidYMD(y, m, d) == m \in 1..12 /\ d >= 1 /\ d <= DaysInMonth(y, m)

UTCMidnight(y, m, d) ==
  IF ValidYMD(y, m, d) THEN DaysFromCivil(y, m, d) * MinutesPerDay ELSE NaN

\* the instant of the UTC midnight of "YYYY-MM-DD", "YYYY-MM" or "YYYY"
ParseISODate(s) ==
  CASE Len(s) = 10 /\ AllDigits(s, 1, 4) /\ s[5] = "-" /\ AllDigits(s, 6, 7)
       /\ s[8] = "-" /\ AllDigits(s, 9, 10) ->
         UTCMidnight(ToNumber(s, 1, 4), ToNumber(s, 6, 7), ToNumber(s, 9, 10))
    [] Len(s) = 7 /\ AllDigits(s, 1, 4) /\ s[5] = "-" /\ AllDigits(s, 6, 7) ->
         UTCMidnight(ToNumber(s, 1, 4), ToNumber(s, 6, 7), 1)
    [] Len(s) = 4 /\ AllDigits(s, 1, 4) ->
         UTCMidnight(ToNumber(s, 1, 4), 1, 1)
    [] OTHER -> NaN

\* the minutes after midnight of "HH:MM"
ParseISOTime(s) ==
  IF Len(s) = 5 /\ AllDigits(s, 1, 2) /\ s[3] = ":" /\ AllDigits(s, 4, 5)
     /\ ToNumber(s, 1, 2) <= 23 /\ ToNumber(s, 4, 5) <= 59
  THEN ToNumber(s, 1, 2) * 60 + ToNumber(s, 4, 5)
  ELSE NaN

\* the instant of a day and a time of day, local unless utc
DateTimeValue(day, time, utc) ==
  IF IsNaN(day) \/ IsNaN(time) THEN NaN
  ELSE IF utc THEN day + time
  ELSE day + time - tzOffset

EndsWithZ(rest) == Len(rest) > 0 /\ rest[Len(rest)] = "Z"
TimeText(rest) ==
  IF EndsWithZ(rest) THEN SubSeq(rest, 1, Len(rest) - 1) ELSE rest

\* "YYYY-MM-DD" followed by "T" and rest
ParseDateTime(datePart, rest) ==
  IF Len(datePart) # 10 THEN NaN
  ELSE DateTimeValue(ParseISODate(datePart), ParseISOTime(TimeText(rest)),
                     EndsWithZ(rest))

DateParse(s) ==
  IF SepPositions(s, "T") = {} THEN ParseISODate(s)
  ELSE ParseDateTime(SplitHead(s, "T"),
                     SubSeq(s, Len(SplitHead(s, "T")) + 2, Len(s)))

\* Timestamp.toDate().getTime(): the instant of a store timestamp
TimestampToDate(ts) == ts.seconds \div 60

-----------------------------------------------------------------------------
(* parseDateToISO *)

Returned(v) == [threw |-> FALSE, value |-> v]
Thrown == [threw |-> TRUE, value |-> Undefined]

\* Date.prototype.toISOString().split("T")[0]; RangeError on an invalid date
ToISODate(min) == IF IsNaN(min) THEN Thrown ELSE Returned(Str(ISODatePart(min)))

\* new Date(dateValue) of a string without three parts
FromDateObject(getTime) ==
  IF ~IsNaN(getTime) THEN ToISODate(getTime) ELSE Returned(Null)

FromString(s, head) ==
  IF SplitLength(head, "-") = 3 THEN Returned(Str(head))
  ELSE FromDateObject(DateParse(s))

\* the body of the try block
parseDateToISOTry(v) ==
  CASE v.t = "string" -> FromString(v.s, SplitHead(v.s, "T"))
    [] v.t = "Date" -> ToISODate(v.min)
    [] v.t = "Timestamp" -> ToISODate(TimestampToDate(v))
    [] OTHER -> Returned(Null)

\* the catch clause
Catch(outcome) == IF outcome.threw THEN Returned(Null) ELSE outcome

\* the same without the catch clause
parseDateToISONoCatch(v) == parseDateToISOTry(v)

parseDateToISO(v) == Catch(parseDateToISOTry(v))

-----------------------------------------------------------------------------
(* Documents of the store.  A field a document does not carry reads as     *)
(* undefined: NoField for an identifier field, Undefined for a value.      *)

NoField == "<undefined>"
EmptyId == ""

EnrollmentDoc(id, studentId, courseId) ==
  [id |-> id, studentId |-> studentId, courseId |-> courseId]
CourseDoc(id, title, moduleIds) ==
  [id |-> id, title |-> title, modules |-> moduleIds]
ModuleDoc(id, courseId) == [id |-> id, courseId |-> courseId]
ScheduleDoc(id, courseId, moduleId, date, startTime) ==
  [id |-> id, courseId |-> courseId, moduleId |-> moduleId,
   date |-> date, startTime |-> startTime]

\* the sequence s without its i-th element
RemoveAt(s, i) == SubSeq(s, 1, i - 1) \o SubSeq(s, i + 1, Len(s))

\* the elements of s that satisfy Test, in order (Array.prototype.filter)
Filter(s, Test(_)) == SelectSeq(s, Test)

\* Array.prototype.map
Map(s, F(_)) == [i \in 1..Len(s) |-> F(s[i])]

\* Array.prototype.includes
Includes(s, x) == \E i \in 1..Len(s) : s[i] = x

\* Array.prototype.flat of an array of arrays
RECURSIVE Flat(_)
Flat(ss) == IF ss = <<>> THEN <<>> ELSE Head(ss) \o Flat(Tail(ss))

-----------------------------------------------------------------------------
(* Reads of the store *)

\* getDocs(query(enrollments, where("studentId", "==", uid)))
EnrollmentsQuery(uid) ==
  Filter(enrollmentsCol, LAMBDA e : e.studentId = uid)

\* getDocs(query(modules, where("courseId", "==", courseId))), mapped to ids
ModuleIdsQuery(courseId) ==
  Map(Filter(modulesCol, LAMBDA m : m.courseId # NoField /\ m.courseId = courseId),
      LAMBDA m : m.id)

\* the client rejects where(field, "==", undefined) with an exception
WhereThrows(value) == value = NoField

\* the client rejects doc(db, "courses", id) for an empty or undefined id
DocThrows(id) == id = NoField \/ id = EmptyId

\* getDoc(doc(db, "courses", id)): the course document, or none
CourseExists(id) == \E i \in 1..Len(coursesCol) : coursesCol[i].id = id
CourseData(id) == coursesCol[CHOOSE i \in 1..Len(coursesCol) : coursesCol[i].id = id]

-----------------------------------------------------------------------------
(* fetchClassSchedules: the computation after the reads *)

\* enrollmentsSnapshot.docs.map((doc) => doc.data().courseId)
EnrolledCourseIds(enrollmentsSnapshot) ==
  Map(enrollmentsSnapshot, LAMBDA e : e.courseId)

\* the date of a schedule document made a string where it is a timestamp
FormattedDate(date) ==
  IF date.t = "string" THEN date
  ELSE IF date.t = "Timestamp" THEN Str(ISODatePart(TimestampToDate(date)))
  ELSE date

AllSchedules(schedulesSnapshot) ==
  Map(schedulesSnapshot, LAMBDA d : [d EXCEPT !.date = FormattedDate(d.date)])

\* the filter with the module branch left out
IsStudentScheduleCourseOnly(schedule, enrolledCourseIds, enrolledModuleIds) ==
  Includes(enrolledCourseIds, schedule.courseId)

IsStudentSchedule(schedule, enrolledCourseIds, enrolledModuleIds) ==
  \/ Includes(enrolledCourseIds, schedule.courseId)
  \/ Includes(enrolledModuleIds, schedule.moduleId)

StudentSchedules(allSchedules, enrolledCourseIds, enrolledModuleIds) ==
  Filter(allSchedules,
         LAMBDA sch : IsStudentSchedule(sch, enrolledCourseIds, enrolledModuleIds))

-----------------------------------------------------------------------------
(* The sort of fetchClassSchedules *)

\* getDateValue of the comparator: 0 for what is no string, Date or
\* timestamp (no branch of it throws for the modelled values)
getDateValue(dateStr) ==
  CASE dateStr.t = "string" -> DateParse(dateStr.s)
    [] dateStr.t = "Date" -> dateStr.min
    [] dateStr.t = "Timestamp" -> TimestampToDate(dateStr)
    [] OTHER -> 0

\* the collation order of the characters of the modelled strings
Alphabet ==
  <<":", "-", "0", "1", "2", "3", "4", "5", "6", "7", "8", "9",
    "a", "b", "c", "d", "e", "f", "g", "h", "i", "j", "k", "l", "m",
    "n", "o", "p", "q", "r", "s", "t", "u", "v", "w", "x", "y", "z">>
CharRank(c) == CHOOSE i \in 1..Len(Alphabet) : Alphabet[i] = c

\* String.prototype.localeCompare, as a sign
RECURSIVE localeCompare(_, _)
localeCompare(x, y) ==
  IF x = <<>> /\ y = <<>> THEN 0
  ELSE IF x = <<>> THEN -1
  ELSE IF y = <<>> THEN 1
  ELSE IF CharRank(Head(x)) < CharRank(Head(y)) THEN -1
  ELSE IF CharRank(Head(x)) > CharRank(Head(y)) THEN 1
  ELSE localeCompare(Tail(x), Tail(y))

\* String(v) of the argument of localeCompare
StringOf(v) ==
  IF v.t = "string" THEN v.s
  ELSE <<"u", "n", "d", "e", "f", "i", "n", "e", "d">>

Sign(n) == IF n < 0 THEN -1 ELSE IF n > 0 THEN 1 ELSE 0

\* The two comparators: ByDateThenStart is the one of fetchClassSchedules,
\* ByStart the one of renderDashboardSection, which reads no date.
ByDateThenStart == "date, startTime"
ByStart == "startTime"

\* An element with what the comparator reads of it.  The comparator is a
\* pure function of getDateValue(x.date) and x.startTime, computed here once.
Keyed(by, x) ==
  [date |-> IF by = ByDateThenStart THEN getDateValue(x.date) ELSE 0,
   startTime |-> x.startTime,
   item |-> x]

SameDateValue(a, b) == a.date = b.date /\ ~IsNaN(a.date)

\* the comparator throws a TypeError: a.startTime is undefined
CompareThrows(a, b) == SameDateValue(a, b) /\ a.startTime.t # "string"

\* the sign of the comparator's number where it returns; NaN counts as +0
Compare(a, b) ==
  IF IsNaN(a.date) \/ IsNaN(b.date) THEN 0
  ELSE IF a.date # b.date THEN Sign(a.date - b.date)
  ELSE localeCompare(StringOf(a.startTime), StringOf(b.startTime))

\* the order a successful sort has observed: a call that would throw was
\* not made, the pair was compared the other way round
Observed(a, b) ==
  IF CompareThrows(a, b) THEN 0 - Compare(b, a) ELSE Compare(a, b)

\* the comparator is a consistent comparator for the elements of list
Consistent(list) ==
  /\ \A i, j \in 1..Len(list) :
       Observed(list[i], list[j]) = 0 - Observed(list[j], list[i])
  /\ \A i, j, k \in 1..Len(list) :
       Observed(list[i], list[j]) <= 0 /\ Observed(list[j], list[k]) <= 0
         => Observed(list[i], list[k]) <= 0

\* x inserted behind the elements that do not come after it
RECURSIVE Insert(_, _)
Insert(x, sorted) ==
  IF sorted = <<>> THEN <<x>>
  ELSE IF Observed(x, Head(sorted)) < 0 THEN <<x>> \o sorted
  ELSE <<Head(sorted)>> \o Insert(x, Tail(sorted))

\* the stable sort of list by a consistent comparator
RECURSIVE StableSort(_)
StableSort(list) ==
  IF list = <<>> THEN <<>>
  ELSE Insert(list[Len(list)], StableSort(SubSeq(list, 1, Len(list) - 1)))

Permutations(list) ==
  {[i \in 1..Len(list) |-> list[p[i]]] :
     p \in {q \in [1..Len(list) -> 1..Len(list)] :
              \A i, j \in 1..Len(list) : i # j => q[i] # q[j]}}

\* some call of the comparator may throw; every sort must make such a call
MayThrow(list) ==
  \E i, j \in 1..Len(list) : i # j /\ CompareThrows(list[i], list[j])
MustThrow(list) ==
  \E i, j \in 1..Len(list) :
    /\ i # j
    /\ CompareThrows(list[i], list[j])
    /\ CompareThrows(list[j], list[i])

Items(list) == [i \in 1..Len(list) |-> list[i].item]

\* the orders a sort that returns may leave the elements in
SortedOrders(list) ==
  IF MustThrow(list) THEN {}
  ELSE IF Consistent(list) THEN {StableSort(list)}
  ELSE Permutations(list)

SortKeyed(list) ==
  (IF MayThrow(list) THEN {Thrown} ELSE {})
  \cup {Returned(Items(l)) : l \in SortedOrders(list)}

\* Array.prototype.sort with a comparator: the stably sorted list where the
\* comparator is consistent; an order the engine chooses where it is not;
\* the exception where a call of the comparator throws.  Which calls are
\* made is the engine's choice.
SortOutcomes(by, list) ==
  SortKeyed([i \in 1..Len(list) |-> Keyed(by, list[i])])

\* modulesByEnrolledCourse.flat() once every lookup has answered
EnrolledModuleIds(enrolledCourseIds) ==
  Flat(Map(enrolledCourseIds, ModuleIdsQuery))

ClassSchedulesOf(enrolledCourseIds, schedulesSnapshot) ==
  IF \E k \in 1..Len(enrolledCourseIds) : WhereThrows(enrolledCourseIds[k])
  THEN {Thrown}
  ELSE SortOutcomes(ByDateThenStart,
                    StudentSchedules(AllSchedules(schedulesSnapshot),
                                     enrolledCourseIds,
                                     EnrolledModuleIds(enrolledCourseIds)))

\* What fetchClassSchedules passes to setSchedules for the enrollment and
\* schedule documents it has read, or the exception that takes it to its
\* catch clause.
ClassSchedules(enrollmentsSnapshot, schedulesSnapshot) ==
  IF enrollmentsSnapshot = <<>> THEN {Returned(<<>>)}
  ELSE ClassSchedulesOf(EnrolledCourseIds(enrollmentsSnapshot),
                        schedulesSnapshot)

-----------------------------------------------------------------------------
(* renderDashboardSection: today's classes *)

\* today.setHours(0, 0, 0, 0): the instant of the local midnight before now
LocalMidnight(instant) ==
  ((instant + tzOffset) \div MinutesPerDay) * MinutesPerDay - tzOffset

\* today.toISOString().split("T")[0]
TodayFormatted == ISODatePart(LocalMidnight(now))

\* scheduleDateFormatted === todayFormatted, within the try of the filter
IsToday(scheduleDateFormatted, todayFormatted) ==
  ~scheduleDateFormatted.threw
    /\ scheduleDateFormatted.value = Str(todayFormatted)

TodaysFilter(scheduleList, todayFormatted) ==
  Filter(scheduleList,
         LAMBDA sch : IsToday(parseDateToISO(sch.date), todayFormatted))

FirstModule(course) ==
  IF course.modules = <<>> THEN NoField ELSE course.modules[1]

\* the placeholder class of a day without classes
DemoClass(courses, todayFormatted) ==
  ScheduleDoc("today-demo", NoField, FirstModule(courses[1]),
              Str(todayFormatted), Str(TimeStr(10, 0)))

\* the placeholder added whenever there is an enrolled course
WithPlaceholderAlways(todaysClasses, courses, todayFormatted) ==
  IF Len(courses) > 0
  THEN todaysClasses \o <<DemoClass(courses, todayFormatted)>>
  ELSE todaysClasses

WithPlaceholder(todaysClasses, courses, todayFormatted) ==
  IF Len(todaysClasses) = 0 /\ Len(courses) > 0
  THEN <<DemoClass(courses, todayFormatted)>> ELSE todaysClasses

\* what a rendering computes from the classes of today
RenderClasses(filtered, courses, todayFormatted) ==
  {[threw |-> out.threw,
    todayFormatted |-> todayFormatted,
    filtered |-> filtered,
    todaysClasses |-> IF out.threw THEN <<>> ELSE out.value,
    enrolledCount |-> Len(courses)] :
     out \in SortOutcomes(ByStart,
                          WithPlaceholder(filtered, courses, todayFormatted))}

RenderToday(scheduleList, courses, todayFormatted) ==
  RenderClasses(TodaysFilter(scheduleList, todayFormatted), courses,
                todayFormatted)

RenderDashboardSection(scheduleList, courses) ==
  RenderToday(scheduleList, courses, TodayFormatted)

NotRendered ==
  [threw |-> FALSE, todayFormatted |-> <<>>, filtered |-> <<>>,
   todaysClasses |-> <<>>, enrolledCount |-> 0]

\* React renders again after the state changes of an event
Rerender == rendered' \in RenderDashboardSection(schedules', enrolledCourses')

-----------------------------------------------------------------------------
(* Asynchronous functions in flight *)

NoUser == "<no user>"

FSS == "fetchStudentSchedules"
FEC == "fetchEnrolledCourses"
FCS == "fetchClassSchedules"

NewTask(fn, pc, uid) ==
  [fn |-> fn, pc |-> pc, uid |-> uid,
   schedulesSnapshot |-> <<>>,    \* the schedule documents read
   enrollmentsSnapshot |-> <<>>,  \* the enrollment documents read
   pending |-> {},                \* the lookups of Promise.all not yet back
   lookups |-> <<>>,              \* their results, by position
   enrolledCourseIds |-> <<>>,
   enrolledModuleIds |-> <<>>,
   studentSchedules |-> <<>>,     \* the list passed to setSchedules
   outcome |-> "running"]         \* then: stored, empty, demo or failed

TaskIds == 1..Len(tasks)
At(i, fn, pc) == tasks[i].fn = fn /\ tasks[i].pc = pc

Finish(i, outcome) == [tasks EXCEPT ![i].pc = "done", ![i].outcome = outcome]

Message(text, count) == [text |-> text, count |-> count]
FoundSchedules(n) == Message("Found class schedules", n)
FoundCourses(n) == Message("Found enrolled courses", n)
FailedSchedules == Message("Failed to load your class schedules", 0)
FailedCourses == Message("Failed to load your enrolled courses", 0)

\* showNotification(message)
ShowNotification(m) == notifications' = Append(notifications, m)

IsFailure(m) == m = FailedSchedules \/ m = FailedCourses

-----------------------------------------------------------------------------
(* The effects of StudentDashboard *)

Deps ==
  [userData |-> userData, currentUser |-> currentUser,
   isAuthenticated |-> isAuthenticated]
NotMounted ==
  [userData |-> -1, currentUser |-> NoUser, isAuthenticated |-> FALSE]

\* A commit of React: the effects whose dependencies changed run in the
\* order of their declaration, each with the values of this rendering.
Commit ==
  /\ committed # Deps
  /\ LET authRuns == \/ committed.userData # userData
                     \/ committed.currentUser # currentUser
         fetchRuns == authRuns \/ committed.isAuthenticated # isAuthenticated
         classRuns == \/ committed = NotMounted
                      \/ committed.currentUser # currentUser
                      \/ committed.isAuthenticated # isAuthenticated
         authenticated == isAuthenticated /\ currentUser # NoUser
         fetches == IF fetchRuns /\ authenticated
                    THEN <<NewTask(FSS, "getDocs", currentUser),
                           NewTask(FEC, "getEnrollments", currentUser)>>
                    ELSE <<>>
         classes == IF classRuns /\ authenticated
                    THEN <<NewTask(FCS, "getSchedules", currentUser)>>
                    ELSE <<>>
     IN /\ isAuthenticated' =
             IF authRuns /\ userData # 0 /\ currentUser # NoUser
             THEN TRUE ELSE isAuthenticated
        /\ tasks' = tasks \o fetches \o classes
        /\ schedulesLoading' =
             IF fetches # <<>> \/ classes # <<>> THEN TRUE ELSE schedulesLoading
        /\ coursesLoading' = IF fetches # <<>> THEN TRUE ELSE coursesLoading
  /\ committed' = Deps
  /\ UNCHANGED <<envVars, navVars, notifierVars, storeVars, viewerVars, adapterVars, authVars, schedules, enrolledCourses,
                 notifications, normalizerVars>>
  /\ Rerender

\* The authentication context changes: userData is absent or a new object,
\* currentUser is absent or the signed-in user.
AuthChange(present, user) ==
  /\ authChanges < MaxAuthChanges
  /\ authChanges' = authChanges + 1
  /\ userData' = IF present THEN authChanges + 2 ELSE 0
  /\ currentUser' = user
  /\ <<userData', currentUser'>> # <<userData, currentUser>>
  /\ UNCHANGED <<envVars, navVars, notifierVars, storeVars, viewerVars, adapterVars, isAuthenticated, schedules,
                 schedulesLoading, enrolledCourses, coursesLoading,
                 notifications, committed, tasks, rendered, normalizerVars>>

-----------------------------------------------------------------------------
(* fetchStudentSchedules *)

FssSchedulesRead(i) ==
  /\ At(i, FSS, "getDocs")
  /\ schedules' = schedulesCol
  /\ IF Len(schedulesCol) > 0
     THEN ShowNotification(FoundSchedules(Len(schedulesCol)))
     ELSE UNCHANGED notifications
  /\ schedulesLoading' = FALSE
  /\ tasks' = [Finish(i, "stored") EXCEPT ![i].schedulesSnapshot = schedulesCol,
                                          ![i].studentSchedules = schedulesCol]
  /\ UNCHANGED <<envVars, navVars, notifierVars, storeVars, viewerVars, adapterVars, authVars, isAuthenticated,
                 enrolledCourses, coursesLoading, committed, normalizerVars>>
  /\ Rerender

FssReadFails(i) ==
  /\ At(i, FSS, "getDocs")
  /\ ShowNotification(FailedSchedules)
  /\ schedulesLoading' = FALSE
  /\ tasks' = Finish(i, "failed")
  /\ UNCHANGED <<envVars, navVars, notifierVars, storeVars, viewerVars, adapterVars, authVars, isAuthenticated, schedules,
                 enrolledCourses, coursesLoading, committed, normalizerVars>>
  /\ Rerender

-----------------------------------------------------------------------------
(* fetchEnrolledCourses *)

NoCourse == [found |-> FALSE]

\* the course data without the enrollment record it was looked up for
CourseWithoutEnrollment(enrollment) ==
  [found |-> TRUE,
   id |-> enrollment.courseId,
   title |-> CourseData(enrollment.courseId).title,
   modules |-> CourseData(enrollment.courseId).modules,
   enrollment |-> EnrollmentDoc(NoField, NoField, NoField)]

CourseWithEnrollment(enrollment) ==
  [found |-> TRUE,
   id |-> enrollment.courseId,
   title |-> CourseData(enrollment.courseId).title,
   modules |-> CourseData(enrollment.courseId).modules,
   enrollment |-> enrollment]

FecCatch(i) ==
  /\ ShowNotification(FailedCourses)
  /\ coursesLoading' = FALSE
  /\ UNCHANGED enrolledCourses

FecEnrollmentsRead(i) ==
  /\ At(i, FEC, "getEnrollments")
  /\ LET snapshot == EnrollmentsQuery(tasks[i].uid)
     IN IF snapshot = <<>>
        THEN /\ coursesLoading' = FALSE
             /\ tasks' = Finish(i, "empty")
             /\ UNCHANGED <<enrolledCourses, notifications>>
        ELSE IF \E k \in 1..Len(snapshot) : DocThrows(snapshot[k].courseId)
        THEN /\ FecCatch(i)
             /\ tasks' = [Finish(i, "failed") EXCEPT
                            ![i].enrollmentsSnapshot = snapshot]
        ELSE /\ tasks' = [tasks EXCEPT
                            ![i].pc = "getCourses",
                            ![i].enrollmentsSnapshot = snapshot,
                            ![i].pending = 1..Len(snapshot),
                            ![i].lookups = [k \in 1..Len(snapshot) |-> NoCourse]]
             /\ UNCHANGED <<enrolledCourses, coursesLoading, notifications>>
  /\ UNCHANGED <<envVars, navVars, notifierVars, storeVars, viewerVars, adapterVars, authVars, isAuthenticated, schedules,
                 schedulesLoading, committed, normalizerVars>>
  /\ Rerender

FecCourseRead(i, k) ==
  /\ At(i, FEC, "getCourses")
  /\ k \in tasks[i].pending
  /\ LET enrollment == tasks[i].enrollmentsSnapshot[k]
     IN tasks' = [tasks EXCEPT
                    ![i].pending = @ \ {k},
                    ![i].lookups[k] =
                       IF CourseExists(enrollment.courseId)
                       THEN CourseWithEnrollment(enrollment) ELSE NoCourse]
  /\ UNCHANGED <<envVars, navVars, notifierVars, storeVars, viewerVars, adapterVars, authVars, isAuthenticated, schedules,
                 schedulesLoading, enrolledCourses, coursesLoading,
                 notifications, committed, rendered, normalizerVars>>

FecDone(i) ==
  /\ At(i, FEC, "getCourses")
  /\ tasks[i].pending = {}
  /\ LET validCourses == Filter(tasks[i].lookups, LAMBDA c : c.found)
     IN /\ enrolledCourses' = validCourses
        /\ IF Len(validCourses) > 0
           THEN ShowNotification(FoundCourses(Len(validCourses)))
           ELSE UNCHANGED notifications
  /\ coursesLoading' = FALSE
  /\ tasks' = Finish(i, "stored")
  /\ UNCHANGED <<envVars, navVars, notifierVars, storeVars, viewerVars, adapterVars, authVars, isAuthenticated, schedules,
                 schedulesLoading, committed, normalizerVars>>
  /\ Rerender

FecReadFails(i) ==
  /\ \/ At(i, FEC, "getEnrollments")
     \/ At(i, FEC, "getCourses") /\ tasks[i].pending # {}
  /\ FecCatch(i)
  /\ tasks' = Finish(i, "failed")
  /\ UNCHANGED <<envVars, navVars, notifierVars, storeVars, viewerVars, adapterVars, authVars, isAuthenticated, schedules,
                 schedulesLoading, committed, normalizerVars>>
  /\ Rerender

-----------------------------------------------------------------------------
(* fetchClassSchedules *)

\* the demo schedules of a development build
DemoSchedules ==
  <<ScheduleDoc("demo1", NoField, "demo-module-1",
                Str(ISODatePart(now)), Str(TimeStr(9, 0))),
    ScheduleDoc("demo2", NoField, "demo-module-2",
                Str(ISODatePart(now)), Str(TimeStr(11, 0)))>>

\* the catch clause without the finally clause
FcsCatchOnly(i) ==
  /\ ShowNotification(FailedSchedules)
  /\ UNCHANGED <<schedules, schedulesLoading>>

FcsCatch(i) ==
  /\ ShowNotification(FailedSchedules)
  /\ schedulesLoading' = FALSE
  /\ UNCHANGED schedules

FcsSchedulesRead(i) ==
  /\ At(i, FCS, "getSchedules")
  /\ IF schedulesCol = <<>>
     THEN /\ schedules' = IF nodeEnvDevelopment THEN DemoSchedules ELSE <<>>
          /\ schedulesLoading' = FALSE
          /\ tasks' = [Finish(i, IF nodeEnvDevelopment THEN "demo" ELSE "empty")
                         EXCEPT ![i].studentSchedules = schedules']
     ELSE /\ tasks' = [tasks EXCEPT ![i].pc = "getEnrollments",
                                    ![i].schedulesSnapshot = schedulesCol]
          /\ UNCHANGED <<schedules, schedulesLoading>>
  /\ UNCHANGED <<envVars, navVars, notifierVars, storeVars, viewerVars, adapterVars, authVars, isAuthenticated,
                 enrolledCourses, coursesLoading, notifications, committed,
                 normalizerVars>>
  /\ Rerender

FcsEnrollmentsRead(i) ==
  /\ At(i, FCS, "getEnrollments")
  /\ LET snapshot == EnrollmentsQuery(tasks[i].uid)
         courseIds == EnrolledCourseIds(snapshot)
     IN IF snapshot = <<>>
        THEN /\ schedules' = <<>>
             /\ schedulesLoading' = FALSE
             /\ tasks' = Finish(i, "empty")
             /\ UNCHANGED notifications
        ELSE IF \E k \in 1..Len(courseIds) : WhereThrows(courseIds[k])
        THEN /\ FcsCatch(i)
             /\ tasks' = [Finish(i, "failed") EXCEPT
                            ![i].enrollmentsSnapshot = snapshot,
                            ![i].enrolledCourseIds = courseIds]
        ELSE /\ tasks' = [tasks EXCEPT
                            ![i].pc = "getModules",
                            ![i].enrollmentsSnapshot = snapshot,
                            ![i].enrolledCourseIds = courseIds,
                            ![i].pending = 1..Len(courseIds),
                            ![i].lookups = [k \in 1..Len(courseIds) |-> <<>>]]
             /\ UNCHANGED <<schedules, schedulesLoading, notifications>>
  /\ UNCHANGED <<envVars, navVars, notifierVars, storeVars, viewerVars, adapterVars, authVars, isAuthenticated,
                 enrolledCourses, coursesLoading, committed, normalizerVars>>
  /\ Rerender

FcsModulesRead(i, k) ==
  /\ At(i, FCS, "getModules")
  /\ k \in tasks[i].pending
  /\ tasks' = [tasks EXCEPT
                 ![i].pending = @ \ {k},
                 ![i].lookups[k] = ModuleIdsQuery(tasks[i].enrolledCourseIds[k])]
  /\ UNCHANGED <<envVars, navVars, notifierVars, storeVars, viewerVars, adapterVars, authVars, isAuthenticated, schedules,
                 schedulesLoading, enrolledCourses, coursesLoading,
                 notifications, committed, rendered, normalizerVars>>

\* Promise.all resolved whatever lookups are still pending
AllLookupsBackOrNot(i) == TRUE

\* Promise.all(modulesPromises) has resolved: every lookup has answered
AllLookupsBack(i) == tasks[i].pending = {}

FcsDone(i) ==
  /\ At(i, FCS, "getModules")
  /\ AllLookupsBack(i)
  /\ LET enrolledModuleIds == Flat(tasks[i].lookups)
         studentSchedules ==
           StudentSchedules(AllSchedules(tasks[i].schedulesSnapshot),
                            tasks[i].enrolledCourseIds, enrolledModuleIds)
     IN \E sorted \in SortOutcomes(ByDateThenStart, studentSchedules) :
          IF sorted.threw
          THEN /\ FcsCatch(i)
               /\ tasks' = [Finish(i, "failed") EXCEPT
                              ![i].enrolledModuleIds = enrolledModuleIds]
          ELSE /\ schedules' = sorted.value
               /\ schedulesLoading' = FALSE
               /\ tasks' = [Finish(i, "stored") EXCEPT
                              ![i].enrolledModuleIds = enrolledModuleIds,
                              ![i].studentSchedules = sorted.value]
               /\ UNCHANGED notifications
  /\ UNCHANGED <<envVars, navVars, notifierVars, storeVars, viewerVars, adapterVars, authVars, isAuthenticated,
                 enrolledCourses, coursesLoading, committed, normalizerVars>>
  /\ Rerender

FcsReadFails(i) ==
  /\ \/ At(i, FCS, "getSchedules")
     \/ At(i, FCS, "getEnrollments")
     \/ At(i, FCS, "getModules") /\ tasks[i].pending # {}
  /\ FcsCatch(i)
  /\ tasks' = Finish(i, "failed")
  /\ UNCHANGED <<envVars, navVars, notifierVars, storeVars, viewerVars, adapterVars, authVars, isAuthenticated,
                 enrolledCourses, coursesLoading, committed, normalizerVars>>
  /\ Rerender

-----------------------------------------------------------------------------
(* The date normalizer applied to one value *)

Normalize(v) ==
  /\ dateValue' = v
  /\ parsed' = parseDateToISO(v)
  /\ UNCHANGED <<envVars, navVars, notifierVars, storeVars, viewerVars, adapterVars, authVars, isAuthenticated, schedules,
                 schedulesLoading, enrolledCourses, coursesLoading,
                 notifications, committed, tasks, rendered>>

-----------------------------------------------------------------------------
(* MaterialsViewer (src/unnamed/part_001): JavaScript's || and the adapters *)

\* a value that counts as true in a condition (no NaN or boolean is modelled)
Truthy(v) ==
  /\ v.t \notin {"undefined", "null"}
  /\ v # Str(<<>>)
  /\ v # Num(0)

\* || taking the right operand whatever the left one is
OrRight(a, b) == b

\* a || b
Or(a, b) == IF Truthy(a) THEN a ELSE b

\* a raw material document; a field it does not carry is Undefined
MaterialDoc(id, moduleId, title, name, fileName, fileUrl, fileSize, size,
            createdAt, uploadedAt) ==
  [id |-> id, moduleId |-> moduleId, title |-> title, name |-> name,
   fileName |-> fileName, fileUrl |-> fileUrl, fileSize |-> fileSize,
   size |-> size, createdAt |-> createdAt, uploadedAt |-> uploadedAt]

\* processTimestamp: a Date of the timestamp, the current time by default
processTimestamp(timestamp) ==
  IF ~Truthy(timestamp) THEN NativeDate(now)
  ELSE IF timestamp.t = "Timestamp" THEN NativeDate(TimestampToDate(timestamp))
  ELSE IF timestamp.t = "Date" THEN timestamp
  ELSE IF timestamp.t = "object" /\ timestamp.seconds # 0
  THEN NativeDate(timestamp.seconds \div 60)
  ELSE NativeDate(now)

\* the Material made of a document of the answer to the query for moduleId
AdaptMaterial(data, moduleId) ==
  [id |-> data.id,
   moduleId |-> IF data.moduleId = NoField \/ data.moduleId = EmptyId
                THEN moduleId ELSE data.moduleId,
   title |-> Or(Or(data.title, data.name),
                Str(<<"U", "n", "t", "i", "t", "l", "e", "d">>)),
   fileUrl |-> Or(data.fileUrl, Str(<<>>)),
   fileName |-> Or(Or(Or(data.fileName, data.name), data.fileUrl),
                   Str(<<"U", "n", "k", "n", "o", "w", "n", " ",
                         "f", "i", "l", "e">>)),
   fileSize |-> Or(Or(data.fileSize, data.size), Num(0)),
   createdAt |-> processTimestamp(Or(data.createdAt, data.uploadedAt))]

\* the Module made of a module document
AdaptModule(data) ==
  [id |-> data.id,
   courseId |-> IF data.courseId = NoField THEN EmptyId ELSE data.courseId]

\* modulesToShow of fetchModules
ModulesOfCourse(allModules, courseId) ==
  Filter(allModules, LAMBDA m : m.courseId = courseId)

\* the filtered list without the fallback to all modules
ModulesToShowNoFallback(allModules, forStudent, courseId) ==
  IF forStudent THEN ModulesOfCourse(allModules, courseId) ELSE allModules

ModulesToShow(allModules, forStudent, courseId) ==
  IF forStudent /\ ModulesOfCourse(allModules, courseId) # <<>>
  THEN ModulesOfCourse(allModules, courseId)
  ELSE allModules

\* the query without its where clause
MaterialsQueryAll(moduleId) == materialsCol

\* getDocs(query(materials, where("moduleId", "==", moduleId)))
MaterialsQuery(moduleId) ==
  Filter(materialsCol, LAMBDA d : d.moduleId = moduleId)

-----------------------------------------------------------------------------
(* MaterialsViewer: effects, the user's selection, the two fetches *)

FMOD == "fetchModules"
FMAT == "fetchMaterials"

UPD == "updateModulesWithCourseId"

\* pending: the updateDoc calls of updateModulesWithCourseId not yet settled
NewViewerTask(fn, moduleId) ==
  [fn |-> fn, pc |-> "getDocs", moduleId |-> moduleId, outcome |-> "running",
   pending |-> {}]

ViewerTaskIds == 1..Len(viewerTasks)
ViewerAt(i, fn) == viewerTasks[i].fn = fn /\ viewerTasks[i].pc = "getDocs"
ViewerFinish(i, outcome) ==
  [viewerTasks EXCEPT ![i].pc = "done", ![i].outcome = outcome]

FailedModules == Message("Failed to load modules", 0)
FailedMaterials == Message("Failed to load materials", 0)
FailedUpdate == Message("Failed to update modules", 0)

ViewerDeps ==
  [viewingCourseId |-> viewingCourseId, selectedModule |-> selectedModule]
ViewerNotMounted ==
  [viewingCourseId |-> NoField, selectedModule |-> NoField]

\* A commit of the viewer, rendered in the materials section: the effect of
\* viewingCourseId, then the effect of selectedModule, each where its
\* dependency changed.
ViewerCommit ==
  /\ activeSection = "materials"
  /\ viewerCommitted # ViewerDeps
  /\ LET courseRuns == viewerCommitted.viewingCourseId # viewingCourseId
         moduleRuns == viewerCommitted.selectedModule # selectedModule
         fetchModules == IF courseRuns /\ viewingCourseId # EmptyId
                         THEN <<NewViewerTask(FMOD, NoField)>> ELSE <<>>
         fetchMaterials == IF moduleRuns /\ selectedModule # EmptyId
                           THEN <<NewViewerTask(FMAT, selectedModule)>>
                           ELSE <<>>
     IN /\ viewerTasks' = viewerTasks \o fetchModules \o fetchMaterials
        /\ loading' = IF fetchModules # <<>> \/ fetchMaterials # <<>>
                      THEN TRUE ELSE loading
        /\ materials' = IF moduleRuns THEN <<>> ELSE materials
  /\ viewerCommitted' = ViewerDeps
  /\ UNCHANGED <<envVars, navVars, notifierVars, storeVars, authVars, dashboardVars, normalizerVars,
                 role, viewingCourseId, modules, selectedModule, selections,
                 notifications, adapterVars>>

\* the user picks an option of the module list: a module shown, or none
SelectModule(m) ==
  /\ selections < MaxSelections
  /\ m = EmptyId \/ \E k \in 1..Len(modules) : modules[k].id = m
  /\ m # selectedModule
  /\ selectedModule' = m
  /\ selections' = selections + 1
  /\ UNCHANGED <<envVars, navVars, notifierVars, storeVars, authVars, dashboardVars, normalizerVars,
                 role, viewingCourseId, modules, materials, loading,
                 viewerCommitted, viewerTasks, notifications, adapterVars>>

FmodRead(i) ==
  /\ ViewerAt(i, FMOD)
  /\ modules' = ModulesToShow(Map(modulesCol, AdaptModule),
                              role = "student" /\ viewingCourseId # EmptyId,
                              viewingCourseId)
  /\ loading' = FALSE
  /\ viewerTasks' = ViewerFinish(i, "stored")
  /\ UNCHANGED <<envVars, navVars, notifierVars, storeVars, authVars, dashboardVars, normalizerVars,
                 role, viewingCourseId, materials, selectedModule, selections,
                 viewerCommitted, notifications, adapterVars>>

FmodReadFails(i) ==
  /\ ViewerAt(i, FMOD)
  /\ ShowNotification(FailedModules)
  /\ loading' = FALSE
  /\ viewerTasks' = ViewerFinish(i, "failed")
  /\ UNCHANGED <<envVars, navVars, notifierVars, storeVars, authVars, dashboardVars, normalizerVars,
                 role, viewingCourseId, modules, materials, selectedModule,
                 selections, viewerCommitted, adapterVars>>

FmatRead(i) ==
  /\ ViewerAt(i, FMAT)
  /\ LET materialsSnapshot == MaterialsQuery(viewerTasks[i].moduleId)
     IN IF materialsSnapshot = <<>>
        THEN /\ viewerTasks' = ViewerFinish(i, "empty")
             /\ UNCHANGED materials
        ELSE /\ materials' =
                  Map(materialsSnapshot,
                      LAMBDA d : AdaptMaterial(d, viewerTasks[i].moduleId))
             /\ viewerTasks' = ViewerFinish(i, "stored")
  /\ loading' = FALSE
  /\ UNCHANGED <<envVars, navVars, notifierVars, storeVars, authVars, dashboardVars, normalizerVars,
                 role, viewingCourseId, modules, selectedModule, selections,
                 viewerCommitted, notifications, adapterVars>>

FmatReadFails(i) ==
  /\ ViewerAt(i, FMAT)
  /\ ShowNotification(FailedMaterials)
  /\ loading' = FALSE
  /\ viewerTasks' = ViewerFinish(i, "failed")
  /\ UNCHANGED <<envVars, navVars, notifierVars, storeVars, authVars, dashboardVars, normalizerVars,
                 role, viewingCourseId, modules, materials, selectedModule,
                 selections, viewerCommitted, adapterVars>>

\* the lecturer clicks Update Module Assignments
ClickUpdate ==
  /\ role = "lecturer"
  /\ viewerCommitted # ViewerNotMounted
  /\ Cardinality({i \in ViewerTaskIds : viewerTasks[i].fn = UPD}) < MaxUpdates
  /\ viewerTasks' = Append(viewerTasks, NewViewerTask(UPD, NoField))
  /\ UNCHANGED <<envVars, navVars, notifierVars, storeVars, authVars,
                 dashboardVars, normalizerVars, role, viewingCourseId, modules,
                 materials, loading, selectedModule, selections,
                 viewerCommitted, notifications, adapterVars>>

\* the modules of the snapshot whose courseId is not set
WithoutCourseId(modulesSnapshot) ==
  {modulesSnapshot[k].id :
     k \in {j \in 1..Len(modulesSnapshot) :
              modulesSnapshot[j].courseId \in {NoField, EmptyId}}}

\* updateDoc(moduleRef, {courseId: viewingCourseId}) applied to the store
UpdateDoc(id, courseId) ==
  [k \in 1..Len(modulesCol) |->
     IF modulesCol[k].id = id
     THEN [modulesCol[k] EXCEPT !.courseId = courseId]
     ELSE modulesCol[k]]

\* fetchModules() called by updateModulesWithCourseId once every update has
\* succeeded
RefreshModules(tasksNow, i) ==
  /\ viewerTasks' = Append([tasksNow EXCEPT ![i].pc = "done",
                                            ![i].outcome = "refreshed"],
                           NewViewerTask(FMOD, NoField))
  /\ loading' = TRUE
  /\ UNCHANGED notifications

\* the catch clause of updateModulesWithCourseId
UpdCatch == ShowNotification(FailedUpdate) /\ UNCHANGED loading

\* The modules are read and an updateDoc is issued for each one without a
\* courseId; updateDoc throws for a courseId that is undefined.
UpdRead(i) ==
  /\ ViewerAt(i, UPD)
  /\ IF WithoutCourseId(modulesCol) = {}
     THEN RefreshModules(viewerTasks, i)
     ELSE IF viewingCourseId = EmptyId
     THEN UpdCatch /\ viewerTasks' = ViewerFinish(i, "failed")
     ELSE /\ viewerTasks' =
               [viewerTasks EXCEPT ![i].pc = "updateDocs",
                                   ![i].pending = WithoutCourseId(modulesCol)]
          /\ UNCHANGED <<loading, notifications>>
  /\ UNCHANGED <<envVars, navVars, notifierVars, storeVars, authVars,
                 dashboardVars, normalizerVars, role, viewingCourseId, modules,
                 materials, selectedModule, selections, viewerCommitted,
                 adapterVars>>

UpdReadFails(i) ==
  /\ ViewerAt(i, UPD)
  /\ UpdCatch
  /\ viewerTasks' = ViewerFinish(i, "failed")
  /\ UNCHANGED <<envVars, navVars, notifierVars, storeVars, authVars,
                 dashboardVars, normalizerVars, role, viewingCourseId, modules,
                 materials, selectedModule, selections, viewerCommitted,
                 adapterVars>>

UpdAt(i, id) ==
  /\ viewerTasks[i].fn = UPD
  /\ viewerTasks[i].pc = "updateDocs"
  /\ id \in viewerTasks[i].pending

\* one updateDoc is applied by the store; Promise.all resolves after the
\* last one
UpdWrite(i, id) ==
  /\ UpdAt(i, id)
  /\ modulesCol' = UpdateDoc(id, viewingCourseId)
  /\ IF viewerTasks[i].pending = {id} /\ viewerTasks[i].outcome = "running"
     THEN RefreshModules([viewerTasks EXCEPT ![i].pending = {}], i)
     ELSE /\ viewerTasks' =
               [viewerTasks EXCEPT
                  ![i].pending = @ \ {id},
                  ![i].pc = IF viewerTasks[i].pending = {id}
                            THEN "done" ELSE @]
          /\ UNCHANGED <<loading, notifications>>
  /\ UNCHANGED <<envVars, navVars, notifierVars, enrollmentsCol, coursesCol,
                 schedulesCol, materialsCol, authVars, dashboardVars,
                 normalizerVars, role, viewingCourseId, modules, materials,
                 selectedModule, selections, viewerCommitted, adapterVars>>

\* one updateDoc is rejected: Promise.all rejects with the first rejection,
\* the other updates stay in flight
UpdWriteFails(i, id) ==
  /\ UpdAt(i, id)
  /\ IF viewerTasks[i].outcome = "running"
     THEN UpdCatch
     ELSE UNCHANGED <<loading, notifications>>
  /\ viewerTasks' =
       [viewerTasks EXCEPT
          ![i].pending = @ \ {id},
          ![i].outcome = "failed",
          ![i].pc = IF viewerTasks[i].pending = {id} THEN "done" ELSE @]
  /\ UNCHANGED <<envVars, navVars, notifierVars, storeVars, authVars,
                 dashboardVars, normalizerVars, role, viewingCourseId, modules,
                 materials, selectedModule, selections, viewerCommitted,
                 adapterVars>>

\* no document has been adapted yet
NotAdapted == [id |-> NoField]

\* the adapter of fetchMaterials applied to one raw document
Adapt(data) ==
  /\ rawMaterial = NotAdapted
  /\ rawMaterial' = data
  /\ adaptedMaterial' = AdaptMaterial(data, "m1")
  /\ UNCHANGED <<envVars, navVars, notifierVars, storeVars, authVars, dashboardVars, normalizerVars,
                 viewerVars, notifications>>

-----------------------------------------------------------------------------
(* The values the specifications draw their inputs from *)

Student == "s1"
OtherStudent == "s2"

\* 2024-03-10T00:00:00Z in epoch seconds, and instants of that day
March10Seconds == 1710028800
March10 == DaysFromCivil(2024, 3, 10) * MinutesPerDay
Nows == {March10 + 270, March10 + 1200}      \* 04:30Z and 20:00Z
TimeZones == {0, 330, -300}                  \* UTC, UTC+05:30, UTC-05:00

D10 == Str(DateStr(2024, 3, 10))
D11 == Str(DateStr(2024, 3, 11))
DateTime(y, m, d, h, mi) == Str(DateStr(y, m, d) \o <<"T">> \o TimeStr(h, mi))

Courses ==
  <<CourseDoc("c1", "Algebra", <<"m1">>),
    CourseDoc("c2", "Biology", <<>>),
    CourseDoc("c3", "Chemistry", <<"m3">>)>>

\* m9 refers to a course without document, m0 to the empty id, mN to none
Modules ==
  <<ModuleDoc("m1", "c1"), ModuleDoc("m2", "c2"), ModuleDoc("m3", "c3"),
    ModuleDoc("m9", "c9"), ModuleDoc("m0", EmptyId), ModuleDoc("mN", NoField)>>

EnrollmentPool ==
  <<EnrollmentDoc("e1", Student, "c1"),
    EnrollmentDoc("e2", Student, "c1"),
    EnrollmentDoc("e3", Student, "c2"),
    EnrollmentDoc("e4", Student, "c9"),
    EnrollmentDoc("e5", Student, EmptyId),
    EnrollmentDoc("e6", Student, NoField),
    EnrollmentDoc("e7", OtherStudent, "c3")>>

SchedulePool ==
  <<ScheduleDoc("k1", "c1", NoField, D10, Str(TimeStr(9, 0))),
    ScheduleDoc("k2", NoField, "m2", D10, Undefined),
    ScheduleDoc("k3", NoField, "m3", Timestamp(March10Seconds), Str(TimeStr(8, 0))),
    ScheduleDoc("k4", NoField, "m9", D11, Str(TimeStr(9, 0))),
    ScheduleDoc("k5", NoField, "m0", D11, Str(TimeStr(8, 0))),
    ScheduleDoc("k6", NoField, "mN", D10, Str(TimeStr(11, 0))),
    ScheduleDoc("k7", NoField, NoField, D10, Str(TimeStr(10, 0))),
    ScheduleDoc("k8", "c2", "m1", Timestamp(March10Seconds), Str(TimeStr(8, 0)))>>

\* the elements of pool at the positions of S, in the order of the pool
RECURSIVE Pick(_, _)
Pick(pool, S) ==
  IF pool = <<>> THEN <<>>
  ELSE Pick(SubSeq(pool, 1, Len(pool) - 1), S)
       \o (IF Len(pool) \in S THEN <<pool[Len(pool)]>> ELSE <<>>)

\* the collections of at most max documents of pool
Collections(pool, max) ==
  {Pick(pool, S) : S \in {T \in SUBSET (1..Len(pool)) : Cardinality(T) <= max}}

\* the sequences of at most max elements of S
SeqsUpTo(S, max) == UNION {[1..n -> S] : n \in 0..max}

\* the dates and start times of the schedules that are sorted
SortDates ==
  {D10, D11, DateTime(2024, 3, 10, 15, 0), DateTime(2024, 3, 10, 23, 30),
   Timestamp(March10Seconds), Undefined, Str(DateStr(2024, 13, 45))}
SortStartTimes == {Str(TimeStr(8, 0)), Str(TimeStr(9, 0))}

\* schedule documents of course c1 with ids by position
ScheduleDocs(q) ==
  [i \in 1..Len(q) |->
     ScheduleDoc(<<"k1", "k2", "k3", "k4">>[i], "c1", NoField, q[i][1], q[i][2])]

SortCollections ==
  {ScheduleDocs(q) : q \in SeqsUpTo(SortDates \X SortStartTimes, MaxSortSchedules)}

\* the dates of the schedules of the days around the current one
D09 == Str(DateStr(2024, 3, 9))
TodayDates == SortDates \cup {D09}
TodayCollections ==
  {ScheduleDocs(q) :
     q \in SeqsUpTo(TodayDates \X {Str(TimeStr(9, 0))}, MaxTodaySchedules)}

\* the arguments of parseDateToISO
DateValues ==
  {D10, D11, DateTime(2024, 3, 10, 15, 0), DateTime(2024, 3, 10, 23, 30),
   Str(SubSeq(DateStr(2024, 3, 10), 1, 7)),      \* "2024-03"
   Str(Pad4(2024)),                              \* "2024"
   Str(<<>>),                                    \* ""
   Str(<<"s", "o", "o", "n">>),
   Str(DateStr(2024, 13, 45)),
   Str(<<"a", "-", "b", "-", "c">>),
   Num(March10Seconds), Null, Undefined,
   NativeDate(March10), NativeDate(March10 + 1410), NativeDate(NaN),
   Timestamp(March10Seconds), Timestamp(March10Seconds + 84600),
   SecondsObject(March10Seconds)}

\* raw material documents: of the present field names, of the legacy ones,
\* of another module, and one without moduleId
Title(text) == Str(text)
MaterialPool ==
  <<MaterialDoc("x1", "m1", Title(<<"T">>), Undefined, Title(<<"F">>),
                Title(<<"U">>), Num(7), Undefined,
                Timestamp(March10Seconds), Undefined),
    MaterialDoc("x2", "m1", Undefined, Title(<<"N">>), Undefined, Undefined,
                Undefined, Num(9), Undefined, Timestamp(March10Seconds)),
    MaterialDoc("x3", "m2", Title(<<"T">>), Undefined, Undefined,
                Title(<<"U">>), Undefined, Undefined, Undefined, Undefined),
    MaterialDoc("x4", NoField, Title(<<"T">>), Undefined, Undefined,
                Undefined, Undefined, Undefined, Undefined, Undefined)>>

\* the courses viewed: none, one with a module, one without any module
ViewedCourses == {EmptyId, "c1", "c4"}

\* the raw documents the adapter is applied to
RawMaterials ==
  {MaterialDoc("x1", "m1", title, name, fileName, fileUrl, fileSize, size,
               createdAt, uploadedAt) :
     title \in {Undefined, Title(<<>>), Title(<<"T">>)},
     name \in {Undefined, Title(<<"N">>)},
     fileName \in {Undefined, Title(<<"F">>)},
     fileUrl \in {Undefined, Title(<<"U">>)},
     fileSize \in {Undefined, Num(0), Num(7)},
     size \in {Undefined, Num(9)},
     createdAt \in {Undefined, Null, Timestamp(March10Seconds),
                    SecondsObject(March10Seconds), NativeDate(March10), D10},
     uploadedAt \in {Undefined, Timestamp(March10Seconds + 86400)}}

\* the ids of the documents of a list
IdsOf(list) == {list[k].id : k \in 1..Len(list)}

-----------------------------------------------------------------------------
(* Specifications *)

\* the dashboard before it is mounted
InitDashboard ==
  /\ isAuthenticated = FALSE
  /\ schedules = <<>>
  /\ schedulesLoading = TRUE
  /\ enrolledCourses = <<>>
  /\ coursesLoading = TRUE
  /\ notifications = <<>>
  /\ committed = NotMounted
  /\ tasks = <<>>
  /\ rendered = NotRendered
  /\ dateValue = Undefined
  /\ parsed = Returned(Undefined)

\* the provider without a notification; the dashboard section shown and
\* nothing kept in localStorage
InitNotifier ==
  /\ notificationList = <<>>
  /\ timers = <<>>
  /\ clock = 0
  /\ calls = 0

Storage(courseId, moduleId) ==
  [viewingCourseId |-> courseId, viewingModuleId |-> moduleId]

NoNavigation ==
  /\ activeSection = "dashboard"
  /\ localStorage = Storage(EmptyId, EmptyId)

\* MaterialsViewer before it is mounted
InitViewer ==
  /\ modules = <<>>
  /\ materials = <<>>
  /\ loading = TRUE
  /\ selectedModule = EmptyId
  /\ selections = 0
  /\ viewerCommitted = ViewerNotMounted
  /\ viewerTasks = <<>>
  /\ rawMaterial = NotAdapted
  /\ adaptedMaterial = NotAdapted

\* no viewer is opened and the store holds no material
NoViewer ==
  /\ InitViewer
  /\ NoNavigation
  /\ role = "student"
  /\ viewingCourseId = EmptyId
  /\ materialsCol = <<>>

SignedOut == userData = 0 /\ currentUser = NoUser /\ authChanges = 0
SignedIn == userData = 1 /\ currentUser = Student /\ authChanges = 0

\* The dashboard mounted before the user is known, with every order of the
\* answers of the store and every read failing or not.
Init ==
  /\ InitDashboard
  /\ InitNotifier
  /\ NoViewer
  /\ tzOffset = 0
  /\ now \in Nows
  /\ nodeEnvDevelopment \in BOOLEAN
  /\ enrollmentsCol \in Collections(<<EnrollmentPool[1], EnrollmentPool[2],
                                       EnrollmentPool[7]>>, MaxEnrollments)
  /\ coursesCol = Courses
  /\ modulesCol = Modules
  /\ schedulesCol \in Collections(<<SchedulePool[1], SchedulePool[3]>>,
                                  MaxSchedules)
  /\ SignedOut

Next ==
  \/ Commit
  \/ \E present \in BOOLEAN, user \in {NoUser, Student} :
       AuthChange(present, user)
  \/ \E i \in TaskIds : FssSchedulesRead(i)
  \/ \E i \in TaskIds : FssReadFails(i)
  \/ \E i \in TaskIds : FecEnrollmentsRead(i)
  \/ \E i \in TaskIds, k \in 1..MaxEnrollments : FecCourseRead(i, k)
  \/ \E i \in TaskIds : FecDone(i)
  \/ \E i \in TaskIds : FecReadFails(i)
  \/ \E i \in TaskIds : FcsSchedulesRead(i)
  \/ \E i \in TaskIds : FcsEnrollmentsRead(i)
  \/ \E i \in TaskIds, k \in 1..MaxEnrollments : FcsModulesRead(i, k)
  \/ \E i \in TaskIds : FcsDone(i)
  \/ \E i \in TaskIds : FcsReadFails(i)

Spec == Init /\ [][Next]_vars

\* a read of a fetch in flight is answered or fails
FetchStep ==
  \E i \in TaskIds :
    \/ FssSchedulesRead(i) \/ FssReadFails(i)
    \/ FecEnrollmentsRead(i) \/ FecDone(i) \/ FecReadFails(i)
    \/ FcsSchedulesRead(i) \/ FcsEnrollmentsRead(i) \/ FcsDone(i)
    \/ FcsReadFails(i)
    \/ \E k \in 1..MaxEnrollments : FecCourseRead(i, k) \/ FcsModulesRead(i, k)

\* a fetch has a read whose promise is not settled yet
FetchInFlight == \E i \in TaskIds : tasks[i].pc # "done"

\* a fetch in flight always has a step to take
FetchStepEnabled == FetchInFlight <=> ENABLED <<FetchStep>>_vars

\* Weak fairness of FetchStep, WF_vars(FetchStep), written with the state
\* predicate FetchInFlight in the place of ENABLED <<FetchStep>>_vars, which
\* it equals (FetchStepEnabled): the promise of a read resolves or rejects.
FetchFairness == []<>(~FetchInFlight) \/ []<><<FetchStep>>_vars

\* The same dashboard where every read of the store is settled in the end.
SpecLive == Spec /\ FetchFairness

\* One student with at most one enrollment and one schedule in the store.
InitSmall ==
  /\ InitDashboard
  /\ InitNotifier
  /\ NoViewer
  /\ tzOffset = 0
  /\ now = March10 + 270
  /\ nodeEnvDevelopment \in BOOLEAN
  /\ enrollmentsCol \in Collections(<<EnrollmentPool[1]>>, 1)
  /\ coursesCol = Courses
  /\ modulesCol = Modules
  /\ schedulesCol \in Collections(<<SchedulePool[1]>>, 1)
  /\ SignedOut

SpecSmall == InitSmall /\ [][Next]_vars

\* The dashboard of a signed-in user whose authentication context changes,
\* to no user, to a user without userData or to new userData, while fetches
\* are in flight or not.
InitAuth ==
  /\ InitDashboard
  /\ InitNotifier
  /\ NoViewer
  /\ tzOffset = 0
  /\ now = March10 + 270
  /\ nodeEnvDevelopment = FALSE
  /\ enrollmentsCol = <<EnrollmentPool[1]>>
  /\ coursesCol = Courses
  /\ modulesCol = Modules
  /\ schedulesCol = <<SchedulePool[1]>>
  /\ SignedIn

NextAuth ==
  \/ Commit
  \/ \E present \in BOOLEAN, user \in {NoUser, Student} :
       AuthChange(present, user)
  \/ \E i \in TaskIds : FssSchedulesRead(i)
  \/ \E i \in TaskIds : FssReadFails(i)
  \/ \E i \in TaskIds : FecEnrollmentsRead(i)
  \/ \E i \in TaskIds, k \in 1..MaxEnrollments : FecCourseRead(i, k)
  \/ \E i \in TaskIds : FecDone(i)
  \/ \E i \in TaskIds : FecReadFails(i)
  \/ \E i \in TaskIds : FcsSchedulesRead(i)
  \/ \E i \in TaskIds : FcsEnrollmentsRead(i)
  \/ \E i \in TaskIds, k \in 1..MaxEnrollments : FcsModulesRead(i, k)
  \/ \E i \in TaskIds : FcsDone(i)
  \/ \E i \in TaskIds : FcsReadFails(i)

SpecAuth == InitAuth /\ [][NextAuth]_vars

\* fetchClassSchedules alone, its reads answered in every order
NextClassSchedules ==
  \/ Commit
  \/ \E i \in TaskIds : FcsSchedulesRead(i)
  \/ \E i \in TaskIds : FcsEnrollmentsRead(i)
  \/ \E i \in TaskIds, k \in 1..MaxEnrollments : FcsModulesRead(i, k)
  \/ \E i \in TaskIds : FcsDone(i)

\* The join: every collection of enrollments and of schedules of the pools.
InitJoin ==
  /\ InitDashboard
  /\ InitNotifier
  /\ NoViewer
  /\ tzOffset = 0
  /\ now = March10 + 270
  /\ nodeEnvDevelopment = FALSE
  /\ enrollmentsCol \in Collections(EnrollmentPool, MaxEnrollments)
  /\ coursesCol = Courses
  /\ modulesCol = Modules
  /\ schedulesCol \in Collections(SchedulePool, MaxSchedules)
  /\ SignedIn

SpecJoin == InitJoin /\ [][NextClassSchedules]_vars

\* The enrolled courses: every collection of enrollments of the pool, the
\* course lookups answering in every order, every read failing or not.
NextEnrolledCourses ==
  \/ Commit
  \/ \E i \in TaskIds : FecEnrollmentsRead(i)
  \/ \E i \in TaskIds, k \in 1..MaxEnrollments : FecCourseRead(i, k)
  \/ \E i \in TaskIds : FecDone(i)
  \/ \E i \in TaskIds : FecReadFails(i)

InitCourses ==
  /\ InitDashboard
  /\ InitNotifier
  /\ NoViewer
  /\ tzOffset = 0
  /\ now = March10 + 270
  /\ nodeEnvDevelopment = FALSE
  /\ enrollmentsCol \in Collections(EnrollmentPool, MaxEnrollments)
  /\ coursesCol = Courses
  /\ modulesCol = Modules
  /\ schedulesCol = <<>>
  /\ SignedIn

SpecCourses == InitCourses /\ [][NextEnrolledCourses]_vars

\* The sort: schedules of an enrolled course whose dates and start times
\* vary.
InitSort ==
  /\ InitDashboard
  /\ InitNotifier
  /\ NoViewer
  /\ tzOffset = 0
  /\ now = March10 + 270
  /\ nodeEnvDevelopment = FALSE
  /\ enrollmentsCol = <<EnrollmentPool[1]>>
  /\ coursesCol = Courses
  /\ modulesCol = Modules
  /\ schedulesCol \in SortCollections
  /\ SignedIn

SpecSort == InitSort /\ [][NextClassSchedules]_vars

\* Today's classes: schedules of an enrolled course on the days around the
\* current one, in every time zone.
InitToday ==
  /\ InitDashboard
  /\ InitNotifier
  /\ NoViewer
  /\ tzOffset \in TimeZones
  /\ now \in Nows
  /\ nodeEnvDevelopment = FALSE
  /\ enrollmentsCol = <<EnrollmentPool[1]>>
  /\ coursesCol = Courses
  /\ modulesCol = Modules
  /\ schedulesCol \in TodayCollections
  /\ SignedIn

SpecToday == InitToday /\ [][NextClassSchedules]_vars

\* The date normalizer alone.
InitDates ==
  /\ InitDashboard
  /\ InitNotifier
  /\ NoViewer
  /\ tzOffset \in TimeZones
  /\ now \in Nows
  /\ nodeEnvDevelopment = FALSE
  /\ enrollmentsCol = <<>>
  /\ coursesCol = Courses
  /\ modulesCol = Modules
  /\ schedulesCol = <<>>
  /\ SignedIn

NextDates == \E v \in DateValues : Normalize(v)

SpecDates == InitDates /\ [][NextDates]_vars

\* The materials viewer of a signed-in user: every role, a course viewed or
\* none, every collection of materials of the pool, every selection.
InitMaterials ==
  /\ InitDashboard
  /\ InitNotifier
  /\ InitViewer
  /\ tzOffset = 0
  /\ now = March10 + 270
  /\ nodeEnvDevelopment = FALSE
  /\ enrollmentsCol = <<>>
  /\ coursesCol = Courses
  /\ modulesCol = Modules
  /\ schedulesCol = <<>>
  /\ materialsCol \in Collections(MaterialPool, MaxMaterials)
  /\ role \in {"student", "lecturer"}
  /\ viewingCourseId \in ViewedCourses
  /\ activeSection = "materials"
  /\ localStorage = Storage(viewingCourseId, EmptyId)
  /\ SignedIn

NextMaterials ==
  \/ ViewerCommit
  \/ \E m \in {EmptyId} \cup IdsOf(modulesCol) : SelectModule(m)
  \/ \E i \in ViewerTaskIds : FmodRead(i)
  \/ \E i \in ViewerTaskIds : FmodReadFails(i)
  \/ \E i \in ViewerTaskIds : FmatRead(i)
  \/ \E i \in ViewerTaskIds : FmatReadFails(i)

SpecMaterials == InitMaterials /\ [][NextMaterials]_vars

\* The viewer of a lecturer: the module list and Update Module Assignments,
\* over every collection of modules of the pool.
InitUpdate ==
  /\ InitDashboard
  /\ InitNotifier
  /\ InitViewer
  /\ tzOffset = 0
  /\ now = March10 + 270
  /\ nodeEnvDevelopment = FALSE
  /\ enrollmentsCol = <<>>
  /\ coursesCol = Courses
  /\ modulesCol \in Collections(Modules, MaxModules)
  /\ schedulesCol = <<>>
  /\ materialsCol = <<>>
  /\ role = "lecturer"
  /\ viewingCourseId \in ViewedCourses
  /\ activeSection = "materials"
  /\ localStorage = Storage(viewingCourseId, EmptyId)
  /\ SignedIn

NextUpdate ==
  \/ ViewerCommit
  \/ \E i \in ViewerTaskIds : FmodRead(i)
  \/ \E i \in ViewerTaskIds : FmodReadFails(i)
  \/ ClickUpdate
  \/ \E i \in ViewerTaskIds : UpdRead(i)
  \/ \E i \in ViewerTaskIds : UpdReadFails(i)
  \/ \E i \in ViewerTaskIds, id \in IdsOf(modulesCol) : UpdWrite(i, id)
  \/ \E i \in ViewerTaskIds, id \in IdsOf(modulesCol) : UpdWriteFails(i, id)

SpecUpdate == InitUpdate /\ [][NextUpdate]_vars

\* The material adapter alone.
InitAdapter ==
  /\ InitDashboard
  /\ InitNotifier
  /\ NoViewer
  /\ tzOffset = 0
  /\ now = March10 + 270
  /\ nodeEnvDevelopment = FALSE
  /\ enrollmentsCol = <<>>
  /\ coursesCol = Courses
  /\ modulesCol = Modules
  /\ schedulesCol = <<>>
  /\ SignedIn

NextAdapter == \E data \in RawMaterials : Adapt(data)

SpecAdapter == InitAdapter /\ [][NextAdapter]_vars

-----------------------------------------------------------------------------
(* Properties *)

ElementsOf(list) == {list[k] : k \in 1..Len(list)}
NoDuplicates(list) == \A a, b \in 1..Len(list) : a # b => list[a] # list[b]

\* task t is a run of fn that has passed a list to its setter
Stored(t, fn) == t.fn = fn /\ t.outcome = "stored"

\* task t is a run of fetchClassSchedules that has ended, having read a
\* non-empty schedule collection
ClassSchedulesEnded(t) ==
  t.fn = FCS /\ t.pc = "done" /\ t.schedulesSnapshot # <<>>

\* the course ids of the enrollment records of the store for student uid
EnrolledCoursesOf(uid) ==
  {enrollmentsCol[k].courseId :
     k \in {j \in 1..Len(enrollmentsCol) : enrollmentsCol[j].studentId = uid}}

\* the schedule carries a course id of E, or the id of a module of the store
\* whose course id is of E
Associated(schedule, E) ==
  \/ schedule.courseId \in E
  \/ \E m \in 1..Len(modulesCol) :
       modulesCol[m].id = schedule.moduleId /\ modulesCol[m].courseId \in E

\* C1: the list fetchClassSchedules stores for a student with enrollments
\* and a non-empty schedule collection holds schedules of the store only,
\* and holds a schedule of the store if and only if its courseId is an
\* enrolled course id or its moduleId is the id of a module of an enrolled
\* course.
C1_StoredIffAssociated ==
  \A i \in TaskIds :
    Stored(tasks[i], FCS) =>
      /\ IdsOf(tasks[i].studentSchedules) \subseteq IdsOf(schedulesCol)
      /\ \A k \in 1..Len(schedulesCol) :
           schedulesCol[k].id \in IdsOf(tasks[i].studentSchedules)
             <=> Associated(schedulesCol[k], EnrolledCoursesOf(tasks[i].uid))

\* a stored list with a schedule included through its module only, and a
\* schedule of the store left out
C1_Witness ==
  \E i \in TaskIds :
    /\ Stored(tasks[i], FCS)
    /\ \E k \in 1..Len(tasks[i].studentSchedules) :
         tasks[i].studentSchedules[k].courseId
           \notin EnrolledCoursesOf(tasks[i].uid)
    /\ IdsOf(tasks[i].studentSchedules) # IdsOf(schedulesCol)

AllFetchesDone == tasks # <<>> /\ \A i \in TaskIds : tasks[i].pc = "done"
NoReadFailed == \A i \in TaskIds : tasks[i].outcome # "failed"

\* C2: for a student without enrollments, once every fetch has completed
\* (no read having failed; a production build), enrolledCourses and
\* schedules are empty and no failure notification has been shown, in every
\* order of completion.
C2_ZeroEnrollmentsEmptyViews ==
  (/\ EnrollmentsQuery(Student) = <<>>
   /\ AllFetchesDone
   /\ NoReadFailed
   /\ ~nodeEnvDevelopment) =>
    /\ enrolledCourses = <<>>
    /\ schedules = <<>>
    /\ \A n \in 1..Len(notifications) : ~IsFailure(notifications[n])

\* C3: a course with several enrollment records of the student is counted
\* once: once in enrolledCourses and in the count rendered, its modules once
\* among the enrolled module ids, its schedules once in the stored list.
C3_DuplicatesCountedOnce ==
  /\ NoDuplicates(Map(enrolledCourses, LAMBDA c : c.id))
  /\ rendered.enrolledCount = Cardinality(IdsOf(enrolledCourses))
  /\ \A i \in TaskIds :
       tasks[i].fn = FCS =>
         /\ NoDuplicates(tasks[i].enrolledModuleIds)
         /\ NoDuplicates(Map(tasks[i].studentSchedules, LAMBDA sch : sch.id))

\* C4: whatever fetchClassSchedules computes for the enrollment records read
\* less one of them is still there for the records read: the enrolled course
\* ids, the enrolled module ids and the schedules passed to setSchedules.
C4_JoinMonotone ==
  \A i \in TaskIds :
    ClassSchedulesEnded(tasks[i]) =>
      \A k \in 1..Len(tasks[i].enrollmentsSnapshot) :
        LET before ==
              EnrolledCourseIds(RemoveAt(tasks[i].enrollmentsSnapshot, k))
        IN /\ ElementsOf(before) \subseteq ElementsOf(tasks[i].enrolledCourseIds)
           /\ (\A c \in ElementsOf(before) : ~WhereThrows(c)) =>
                ElementsOf(EnrolledModuleIds(before))
                  \subseteq ElementsOf(tasks[i].enrolledModuleIds)
           /\ \A out \in ClassSchedules(
                           RemoveAt(tasks[i].enrollmentsSnapshot, k),
                           tasks[i].schedulesSnapshot) :
                ~out.threw =>
                  IdsOf(out.value) \subseteq IdsOf(tasks[i].studentSchedules)

\* C5: a module whose courseId is the id of no course document is never
\* among the enrolled module ids of fetchClassSchedules, and no schedule is
\* stored for the moduleId of such a module alone.
C5_OrphanModulesExcluded ==
  \A i \in TaskIds :
    tasks[i].fn = FCS =>
      \A m \in 1..Len(modulesCol) :
        ~CourseExists(modulesCol[m].courseId) =>
          /\ ~Includes(tasks[i].enrolledModuleIds, modulesCol[m].id)
          /\ \A k \in 1..Len(tasks[i].studentSchedules) :
               tasks[i].studentSchedules[k].moduleId = modulesCol[m].id =>
                 tasks[i].studentSchedules[k].courseId
                   \in EnrolledCoursesOf(tasks[i].uid)

NoKey(id) == id = EmptyId \/ id = NoField

\* C6: a module with an empty or missing courseId is never an enrolled
\* module, and a schedule with neither moduleId nor courseId is never in the
\* list fetchClassSchedules stores.
C6_EmptyKeysExcluded ==
  \A i \in TaskIds :
    tasks[i].fn = FCS =>
      /\ \A m \in 1..Len(modulesCol) :
           NoKey(modulesCol[m].courseId) =>
             ~Includes(tasks[i].enrolledModuleIds, modulesCol[m].id)
      /\ \A k \in 1..Len(tasks[i].studentSchedules) :
           ~(/\ NoKey(tasks[i].studentSchedules[k].courseId)
             /\ NoKey(tasks[i].studentSchedules[k].moduleId))

\* a date string the engine parses, or a timestamp
ValidDate(date) ==
  \/ date.t = "Timestamp"
  \/ date.t = "string" /\ ~IsNaN(DateParse(date.s))

\* the canonical calendar date of a valid date, as a string
CanonicalDate(date) == StringOf(parseDateToISO(date).value)

\* x is not after y in (canonical date, startTime)
NotAfter(x, y) ==
  \/ localeCompare(CanonicalDate(x.date), CanonicalDate(y.date)) < 0
  \/ /\ CanonicalDate(x.date) = CanonicalDate(y.date)
     /\ localeCompare(StringOf(x.startTime), StringOf(y.startTime)) <= 0

\* C7: where every schedule read has a valid date, the list
\* fetchClassSchedules stores is non-decreasing in (canonical date,
\* startTime).
C7_SortedByDateThenStart ==
  \A i \in TaskIds :
    (/\ Stored(tasks[i], FCS)
     /\ \A k \in 1..Len(tasks[i].schedulesSnapshot) :
          ValidDate(tasks[i].schedulesSnapshot[k].date)) =>
      \A a, b \in 1..Len(tasks[i].studentSchedules) :
        a < b => NotAfter(tasks[i].studentSchedules[a],
                          tasks[i].studentSchedules[b])

ValidEntries(list) == Filter(list, LAMBDA sch : ValidDate(sch.date))

\* C8: the sort of fetchClassSchedules does not fail; in the list stored no
\* entry with an unparsable date precedes an entry with a valid date; and
\* the valid entries are in the order they have when sorted by themselves.
C8_UnparsableDatesLast ==
  \A i \in TaskIds :
    ClassSchedulesEnded(tasks[i]) =>
      /\ tasks[i].outcome = "stored"
      /\ \A a, b \in 1..Len(tasks[i].studentSchedules) :
           a < b => ~(/\ ~ValidDate(tasks[i].studentSchedules[a].date)
                      /\ ValidDate(tasks[i].studentSchedules[b].date))
      /\ Returned(ValidEntries(tasks[i].studentSchedules))
           \in SortOutcomes(ByDateThenStart,
                            ValidEntries(AllSchedules(tasks[i].schedulesSnapshot)))

\* the entries of list whose date normalizes to the canonical date today
EntriesOf(list, today) ==
  Filter(list, LAMBDA sch : today.value # Null
                            /\ parseDateToISO(sch.date) = today)

\* C9: the classes of today, before the placeholder, are the entries of
\* schedules whose date normalizes to the canonical date of the current
\* time, normalized as the dates of the schedules are.
C9_TodaysClasses ==
  rendered # NotRendered =>
    rendered.filtered = EntriesOf(schedules, parseDateToISO(NativeDate(now)))

\* parseDateToISO has been applied to dateValue
Normalized == parsed # Returned(Undefined)

\* the empty string, a number, null, undefined, an object that is neither a
\* Date nor a timestamp with toDate
NullInput(v) ==
  v = Str(<<>>) \/ v.t \in {"number", "null", "undefined", "object"}

\* C10: parseDateToISO never throws, and returns null for the empty string,
\* a number, null, undefined and an object that is neither a Date nor a
\* timestamp with toDate.
C10_NormalizerTotal ==
  Normalized =>
    /\ ~parsed.threw
    /\ NullInput(dateValue) => parsed.value = Null

\* applied to a number, it has returned null
C10_Witness ==
  Normalized /\ dateValue.t = "number" /\ parsed = Returned(Null)

\* s is YYYY-MM-DD and names a day of the calendar
RealDay(s) ==
  /\ Len(s) = 10
  /\ AllDigits(s, 1, 4) /\ s[5] = "-" /\ AllDigits(s, 6, 7)
  /\ s[8] = "-" /\ AllDigits(s, 9, 10)
  /\ ValidYMD(ToNumber(s, 1, 4), ToNumber(s, 6, 7), ToNumber(s, 9, 10))

\* C11: what parseDateToISO returns is null or a well-formed YYYY-MM-DD
\* string of a real calendar day; a string of three hyphen-separated parts
\* that is no real date gives null.
C11_NullUnlessRealDay ==
  (Normalized /\ parsed.value # Null) =>
    parsed.value.t = "string" /\ RealDay(parsed.value.s)

\* v has one of the four shapes and denotes a calendar day: a date string
\* with or without a time, a valid Date, a timestamp with toDate, an object
\* carrying only epoch seconds
DenotesDay(v) ==
  \/ v.t = "string" /\ RealDay(SplitHead(v.s, "T"))
  \/ v.t = "Date" /\ ~IsNaN(v.min)
  \/ v.t = "Timestamp"
  \/ v.t = "object"

\* the canonical string of the day v denotes
DayDenoted(v) ==
  CASE v.t = "string" -> SplitHead(v.s, "T")
    [] v.t = "Date" -> ISODatePart(v.min)
    [] OTHER -> ISODatePart(v.seconds \div 60)

\* C12: for each of the four shapes, parseDateToISO returns the canonical
\* YYYY-MM-DD string of the day the input denotes, so inputs of different
\* shapes that denote one day get one string.
C12_RoundTrip ==
  (Normalized /\ DenotesDay(dateValue)) =>
    parsed = Returned(Str(DayDenoted(dateValue)))

\* the positions of the placeholder class in the classes rendered
Placeholders ==
  {k \in 1..Len(rendered.todaysClasses) :
     rendered.todaysClasses[k].id = "today-demo"}

\* C13: a rendering shows the placeholder class exactly when its filter has
\* found no class of today and enrolledCourses is not empty; it is then the
\* only class shown; no entry of schedules and no document of the store has
\* the id of the placeholder.  (The classes of today are those the filter of
\* the rendering finds.)
C13_PlaceholderPolicy ==
  /\ (rendered # NotRendered /\ ~rendered.threw) =>
       /\ Placeholders # {} <=>
            (rendered.filtered = <<>> /\ rendered.enrolledCount > 0)
       /\ Placeholders # {} => Len(rendered.todaysClasses) = 1
       /\ rendered.enrolledCount = Len(enrolledCourses)
  /\ "today-demo" \notin IdsOf(schedules)
  /\ "today-demo" \notin IdsOf(schedulesCol)

\* a rendering with an enrolled course and no class of today
C13_Witness ==
  /\ rendered # NotRendered
  /\ rendered.enrolledCount > 0
  /\ rendered.filtered = <<>>
  /\ Placeholders = {1}

\* the fetches of the materials of a module that the viewer has started
MaterialFetches == {i \in ViewerTaskIds : viewerTasks[i].fn = FMAT}

\* the ids of the material documents of the store whose moduleId is m
StoredMaterialsOf(m) ==
  {materialsCol[k].id :
     k \in {j \in 1..Len(materialsCol) : materialsCol[j].moduleId = m}}

\* fetchMaterials has run once, for the module still selected, and has
\* completed without error
FetchedAlone(i) ==
  /\ MaterialFetches = {i}
  /\ \A j \in ViewerTaskIds : viewerTasks[j].pc = "done"
  /\ viewerTasks[i].outcome # "failed"
  /\ viewerTasks[i].moduleId = selectedModule
  /\ viewerCommitted = ViewerDeps

\* C14: when the one fetchMaterials(m) has completed without error,
\* materials holds the material records of the store whose moduleId is m,
\* each once, and nothing else (nothing at all where none matches), and no
\* failure of the materials has been notified.
C14_MaterialsOfModule ==
  \A i \in ViewerTaskIds :
    FetchedAlone(i) =>
      /\ IdsOf(materials) = StoredMaterialsOf(viewerTasks[i].moduleId)
      /\ Len(materials) = Cardinality(IdsOf(materials))
      /\ \A k \in 1..Len(materials) :
           materials[k].moduleId = viewerTasks[i].moduleId
      /\ ~Includes(notifications, FailedMaterials)

\* materials of module m1 fetched from a store that holds materials of
\* another module too
C14_Witness ==
  \E i \in ViewerTaskIds :
    /\ FetchedAlone(i)
    /\ materials # <<>>
    /\ IdsOf(materials) # IdsOf(materialsCol)
    /\ \E k \in 1..Len(materialsCol) :
         materialsCol[k].moduleId \notin {viewerTasks[i].moduleId, NoField}

\* fetchModules has completed without error for a student viewing a course
ModulesFetchedForStudent ==
  /\ role = "student"
  /\ viewingCourseId # EmptyId
  /\ \E i \in ViewerTaskIds : viewerTasks[i].fn = FMOD
                              /\ viewerTasks[i].outcome = "stored"

\* the ids of the module documents of the store whose courseId is c
StoredModulesOf(c) ==
  {modulesCol[k].id :
     k \in {j \in 1..Len(modulesCol) : modulesCol[j].courseId = c}}

\* C15: for a student viewing course c, fetchModules stores the modules of
\* the store whose courseId is c where there is one, all modules of the
\* store where there is none.
C15_ModulesOfCourseOrAll ==
  ModulesFetchedForStudent =>
    IdsOf(modules) = IF StoredModulesOf(viewingCourseId) # {}
                     THEN StoredModulesOf(viewingCourseId)
                     ELSE IdsOf(modulesCol)

\* the modules of the course viewed, fewer than the store holds
C15_Witness ==
  /\ ModulesFetchedForStudent
  /\ IdsOf(modules) = StoredModulesOf(viewingCourseId)
  /\ IdsOf(modules) # IdsOf(modulesCol)
  /\ modules # <<>>

\* C16: the viewer keeps no flag that tells a module list made by the
\* fallback from one made by the filter (its state is modules, materials,
\* loading, selectedModule and viewingCourseId), so that modules of other
\* courses are never presented without the flag means: every module stored
\* for a student viewing course c has courseId c.
C16_FallbackFlagged ==
  ModulesFetchedForStudent =>
    \A k \in 1..Len(modules) : modules[k].courseId = viewingCourseId


\* a field that is missing from a raw record, or empty
Missing(v) == v \in {Undefined, Null, Str(<<>>), Num(0)}

\* the first candidate of a list that is not missing, Undefined if none
RECURSIVE FirstPresent(_)
FirstPresent(candidates) ==
  IF candidates = <<>> THEN Undefined
  ELSE IF ~Missing(Head(candidates)) THEN Head(candidates)
  ELSE FirstPresent(Tail(candidates))

\* value is the first candidate present, and a defined value of the type
\* where every candidate is missing
TakenFrom(value, candidates, type) ==
  /\ value.t = type
  /\ ~Missing(FirstPresent(candidates)) => value = FirstPresent(candidates)

\* the instant of a timestamp in one of the forms processTimestamp reads
IsTimestamp(v) == v.t \in {"Timestamp", "Date", "object"}
InstantOf(v) == IF v.t = "Date" THEN v.min ELSE v.seconds \div 60

\* value is a Date, that of the first candidate present where it is a
\* timestamp
DateTakenFrom(value, candidates) ==
  /\ value.t = "Date"
  /\ ~IsNaN(value.min)
  /\ IsTimestamp(FirstPresent(candidates)) =>
       value.min = InstantOf(FirstPresent(candidates))

\* C20: the adapted Material of every raw record takes title from title
\* else name, fileName from fileName else name else fileUrl, fileSize from
\* fileSize else size, createdAt from createdAt else uploadedAt, where
\* "else" covers a field that is missing or empty; every field of the adapted
\* record is defined, by a default where every candidate is missing; the
\* adapter fails on no record.
C20_AdaptedFields ==
  adaptedMaterial # NotAdapted =>
    /\ DOMAIN adaptedMaterial = {"id", "moduleId", "title", "fileUrl",
                                 "fileName", "fileSize", "createdAt"}
    /\ adaptedMaterial.id = rawMaterial.id
    /\ adaptedMaterial.moduleId \notin {NoField, EmptyId}
    /\ TakenFrom(adaptedMaterial.title,
                 <<rawMaterial.title, rawMaterial.name>>, "string")
    /\ TakenFrom(adaptedMaterial.fileName,
                 <<rawMaterial.fileName, rawMaterial.name,
                   rawMaterial.fileUrl>>, "string")
    /\ TakenFrom(adaptedMaterial.fileSize,
                 <<rawMaterial.fileSize, rawMaterial.size>>, "number")
    /\ TakenFrom(adaptedMaterial.fileUrl, <<rawMaterial.fileUrl>>, "string")
    /\ DateTakenFrom(adaptedMaterial.createdAt,
                     <<rawMaterial.createdAt, rawMaterial.uploadedAt>>)

\* a legacy record adapted: title and fileName from name, fileSize from
\* size, createdAt from uploadedAt
C20_Witness ==
  /\ adaptedMaterial # NotAdapted
  /\ Missing(rawMaterial.title) /\ Missing(rawMaterial.fileName)
  /\ Missing(rawMaterial.fileSize) /\ Missing(rawMaterial.createdAt)
  /\ ~Missing(rawMaterial.name) /\ ~Missing(rawMaterial.size)
  /\ IsTimestamp(rawMaterial.uploadedAt)
  /\ adaptedMaterial.title = rawMaterial.name
  /\ adaptedMaterial.fileName = rawMaterial.name
  /\ adaptedMaterial.fileSize = rawMaterial.size
  /\ adaptedMaterial.createdAt.min = InstantOf(rawMaterial.uploadedAt)

\* the runs of the two schedule fetches that have ended in their catch clause
FailedScheduleFetches ==
  {i \in TaskIds : tasks[i].fn \in {FSS, FCS} /\ tasks[i].outcome = "failed"}

\* the store holds no record that makes a schedule fetch throw by itself, so
\* that a schedule fetch fails by a failed read only
OnlyReadsFail ==
  /\ \A k \in 1..Len(enrollmentsCol) : ~WhereThrows(enrollmentsCol[k].courseId)
  /\ \A k \in 1..Len(schedulesCol) : schedulesCol[k].startTime.t = "string"

\* the failure notifications of the schedules shown so far
ScheduleFailuresShown ==
  {k \in 1..Len(notifications) : notifications[k] = FailedSchedules}

\* C17: once every fetch has ended, a read of the schedule resolution having
\* failed, each failed fetch has been reported by exactly one failure
\* notification and schedules is empty.
C17_FailedReadEmptiesSchedules ==
  (AllFetchesDone /\ OnlyReadsFail /\ FailedScheduleFetches # {}) =>
    /\ Cardinality(ScheduleFailuresShown) = Cardinality(FailedScheduleFetches)
    /\ schedules = <<>>

\* a schedule record with a start time and a date that can be parsed
WellFormed(schedule) ==
  schedule.startTime.t = "string" /\ ValidDate(schedule.date)

\* C18: a malformed schedule record does not abort a pass of
\* fetchClassSchedules: a pass that has read a non-empty schedule collection,
\* for a student whose enrollment records all carry a courseId, does not end
\* in its catch clause, and schedules then holds every well-formed schedule
\* of the store associated with the student's enrollments.
C18_MalformedRecordSkipped ==
  \A i \in TaskIds :
    (/\ ClassSchedulesEnded(tasks[i])
     /\ \A c \in EnrolledCoursesOf(tasks[i].uid) : ~WhereThrows(c)) =>
      /\ tasks[i].outcome # "failed"
      /\ \A k \in 1..Len(schedulesCol) :
           (/\ WellFormed(schedulesCol[k])
            /\ Associated(schedulesCol[k], EnrolledCoursesOf(tasks[i].uid)))
           => schedulesCol[k].id \in IdsOf(schedules)

\* C19: no failure escapes to the presentation layer: whatever the store
\* holds, the dashboard's computation of today's classes (filter,
\* placeholder, sort by startTime) completes without throwing.
C19_RenderNeverThrows == ~rendered.threw


\* C21: the resolution of schedules, courses and materials is read-only: no
\* step of the dashboard or of the materials viewer changes a document of
\* the schedules, enrollments, courses, modules or materials collections.
C21_StoreReadOnly == [][UNCHANGED storeVars]_vars


\* two modules have been selected in turn, the fetch of the first still in
\* flight when the second was selected, and both fetches have completed
BothFetchesCompleted ==
  /\ Cardinality(MaterialFetches) = 2
  /\ \A i \in MaterialFetches : viewerTasks[i].pc = "done"
                                /\ viewerTasks[i].outcome # "failed"
  /\ viewerCommitted = ViewerDeps
  /\ selectedModule # EmptyId

\* C22: module B selected while the fetch for module A is in flight, once
\* both fetches have completed materials holds materials of the selected
\* module B only, whichever fetch completes last.
C22_StaleResultDiscarded ==
  BothFetchesCompleted =>
    \A k \in 1..Len(materials) : materials[k].moduleId = selectedModule


\* a fetch of the viewer is in flight
ViewerFetchInFlight ==
  \E i \in ViewerTaskIds : viewerTasks[i].fn \in {FMOD, FMAT}
                           /\ viewerTasks[i].pc # "done"

\* C30: once the viewer is mounted and its effects have run, loading is true
\* exactly while fetchModules or fetchMaterials is in flight: false when no
\* fetch is in flight (also when there is no course to view), true as long
\* as one is.
C30_LoadingIffInFlight ==
  viewerCommitted = ViewerDeps => (loading <=> ViewerFetchInFlight)


\* the schedules held in schedules that are not effective for the user:
\* neither their course nor the course of their module is one of the user's
\* enrollments
NotEffective ==
  {k \in 1..Len(schedules) :
     ~Associated(schedules[k], EnrolledCoursesOf(currentUser))}

\* C23: fetchStudentSchedules and fetchClassSchedules, in flight together, do
\* not write the same state: schedules never holds a schedule that is not
\* effective for the student while schedulesLoading is false (a production
\* build).
C23_NoSharedWrites ==
  (~schedulesLoading /\ ~nodeEnvDevelopment) => NotEffective = {}


\* the ids of the schedules of snapshot associated with the courses of ids,
\* by their course or by a module of the store
JoinedIds(snapshot, ids) ==
  {snapshot[k].id :
     k \in {j \in 1..Len(snapshot) : Associated(snapshot[j], ElementsOf(ids))}}

\* C25: fetchClassSchedules filters and stores only after every module
\* lookup it issued has answered: while a lookup is pending nothing is
\* stored, and what is stored is made of the answers of all lookups in the
\* order of the enrolled courses, whatever the order of the answers.
C25_FanInBarrier ==
  \A i \in TaskIds :
    tasks[i].fn = FCS =>
      /\ tasks[i].pending # {} =>
           tasks[i].outcome = "running" /\ schedules = <<>>
      /\ tasks[i].outcome = "stored" =>
           /\ tasks[i].enrolledModuleIds =
                Flat([k \in 1..Len(tasks[i].enrolledCourseIds) |->
                        ModuleIdsQuery(tasks[i].enrolledCourseIds[k])])
           /\ IdsOf(schedules) =
                JoinedIds(tasks[i].schedulesSnapshot,
                          tasks[i].enrolledCourseIds)

\* a list stored after two lookups that both found a module, with a schedule
\* joined by its module
C25_Witness ==
  \E i \in TaskIds :
    /\ Stored(tasks[i], FCS)
    /\ Len(tasks[i].lookups) >= 2
    /\ \A k \in 1..Len(tasks[i].lookups) : tasks[i].lookups[k] # <<>>
    /\ \E k \in 1..Len(schedules) :
         /\ schedules[k].moduleId \in ElementsOf(tasks[i].enrolledModuleIds)
         /\ schedules[k].courseId \notin ElementsOf(tasks[i].enrolledCourseIds)


\* the enrollment records of student uid whose course document exists, in
\* the order of the records
EnrollmentsWithCourse(uid) ==
  Filter(EnrollmentsQuery(uid), LAMBDA e : CourseExists(e.courseId))

\* C27: after fetchEnrolledCourses has completed without error,
\* enrolledCourses holds one entry for each enrollment record of the student
\* whose course document exists, carrying that record and the data of its
\* course, in the order of the records; an enrollment without course
\* document is left out and no failure is notified.
C27_EnrolledCoursesInOrder ==
  \A i \in TaskIds :
    Stored(tasks[i], FEC) =>
      /\ Len(enrolledCourses) = Len(EnrollmentsWithCourse(tasks[i].uid))
      /\ \A k \in 1..Len(enrolledCourses) :
           /\ enrolledCourses[k].enrollment =
                EnrollmentsWithCourse(tasks[i].uid)[k]
           /\ enrolledCourses[k].id = enrolledCourses[k].enrollment.courseId
           /\ enrolledCourses[k].title =
                CourseData(enrolledCourses[k].id).title
      /\ ~Includes(notifications, FailedCourses)

\* two courses stored for three enrollment records, one of them without
\* course document
C27_Witness ==
  \E i \in TaskIds :
    /\ Stored(tasks[i], FEC)
    /\ Len(enrolledCourses) = 2
    /\ Len(EnrollmentsQuery(tasks[i].uid)) = 3
    /\ enrolledCourses[1].enrollment # enrolledCourses[2].enrollment


\* a step in which the dashboard issues a read of the store: a fetch starts
\* with its first read, or a fetch in flight goes on to its next reads
IssuesRead ==
  \/ Len(tasks') > Len(tasks)
  \/ \E i \in TaskIds : tasks'[i].pc \notin {tasks[i].pc, "done"}

\* C29: the dashboard issues no read of schedules, enrollments, modules or
\* courses while userData or currentUser.uid is absent, in every sequence
\* of changes of userData and currentUser.
C29_NoReadUnauthenticated ==
  [][IssuesRead => (userData # 0 /\ currentUser # NoUser)]_vars

\* the step that finishes fetch i leaves the loading flag of the fetch false
FinishesNotLoading(i) ==
  (tasks[i].pc # "done" /\ tasks'[i].pc = "done")
  => IF tasks[i].fn = FEC THEN ~coursesLoading' ELSE ~schedulesLoading'

\* C26: every fetch of the dashboard that has started finishes, the step
\* that finishes it leaves its loading flag false, and once
\* the fetches that were started have all finished, whether their reads
\* succeeded, found nothing or failed, schedulesLoading and coursesLoading
\* are false.
C26_FetchesFinishNotLoading ==
  /\ [][\A i \in TaskIds : FinishesNotLoading(i)]_vars
  /\ [](AllFetchesDone => (~schedulesLoading /\ ~coursesLoading))
  /\ (tasks # <<>>) ~> AllFetchesDone

\* every fetch has finished, one with a list stored and one by a failed
\* read, and nothing is loading
C26_Witness ==
  /\ AllFetchesDone
  /\ \E i, j \in TaskIds : /\ tasks[i].outcome = "failed" /\ tasks[i].fn = FCS
                           /\ tasks[j].outcome = "stored"
  /\ ~schedulesLoading /\ ~coursesLoading


-----------------------------------------------------------------------------
(* The Materials button of a schedule entry *)

LoadingMaterials == Message("Loading materials for", 0)

\* MaterialsViewer is constructed by renderMaterialsSection, as a student's
\* viewer without a courseId prop: viewingCourseId is the item of
\* localStorage, every other state its initial value.
MountViewer ==
  /\ role' = "student"
  /\ viewingCourseId' = localStorage.viewingCourseId
  /\ modules' = <<>>
  /\ materials' = <<>>
  /\ loading' = TRUE
  /\ selectedModule' = EmptyId
  /\ viewerCommitted' = ViewerNotMounted

\* The click on the Materials button of entry k of the schedules shown, in
\* today's schedule or in My Classes, and the rendering of the materials
\* section that follows. The button is disabled without a moduleId.
ClickMaterials(k) ==
  /\ activeSection # "materials"
  /\ k \in 1..Len(schedules)
  /\ schedules[k].moduleId \notin {NoField, EmptyId}
  /\ localStorage' = [localStorage EXCEPT
                        !.viewingModuleId = schedules[k].moduleId]
  /\ activeSection' = "materials"
  /\ ShowNotification(LoadingMaterials)
  /\ MountViewer
  /\ UNCHANGED <<envVars, notifierVars, storeVars, authVars, dashboardVars,
                 normalizerVars, adapterVars, selections, viewerTasks>>

\* The dashboard of a signed-in student with three schedules in the store,
\* of module m1, of module m2 and of no module, and a course left in
\* localStorage by an earlier visit, or none.
InitDrill ==
  /\ InitDashboard
  /\ InitNotifier
  /\ InitViewer
  /\ tzOffset = 0
  /\ now = March10 + 270
  /\ nodeEnvDevelopment = FALSE
  /\ enrollmentsCol = <<>>
  /\ coursesCol = Courses
  /\ modulesCol = Modules
  /\ schedulesCol = <<SchedulePool[8], SchedulePool[2], SchedulePool[7]>>
  /\ materialsCol \in Collections(MaterialPool, MaxMaterials)
  /\ role = "student"
  /\ viewingCourseId = EmptyId
  /\ activeSection = "dashboard"
  /\ localStorage \in {Storage(c, EmptyId) : c \in ViewedCourses}
  /\ SignedIn

NextDrill ==
  \/ Commit
  \/ \E i \in TaskIds : FssSchedulesRead(i)
  \/ \E k \in 1..MaxSchedules : ClickMaterials(k)
  \/ ViewerCommit
  \/ \E m \in {EmptyId} \cup IdsOf(modulesCol) : SelectModule(m)
  \/ \E i \in ViewerTaskIds : FmodRead(i)
  \/ \E i \in ViewerTaskIds : FmatRead(i)

SpecDrill == InitDrill /\ [][NextDrill]_vars

\* C24: once the Materials button of a schedule entry of module m was
\* clicked and the viewer has run its effects, the viewer has module m
\* selected, and when no fetch of it is in flight it shows the materials of
\* module m, without any selection by the user.
C24_DrillDownShowsModule ==
  (/\ activeSection = "materials"
   /\ viewerCommitted = ViewerDeps
   /\ selections = 0)
  => /\ selectedModule = localStorage.viewingModuleId
     /\ ~ViewerFetchInFlight
        => IdsOf(materials) = StoredMaterialsOf(localStorage.viewingModuleId)

-----------------------------------------------------------------------------
(* NotificationProvider: showNotification and its timers *)

MaxCalls == 3        \* calls of showNotification
MaxDrift == 1        \* ms past a multiple of the delay at which time is read
MaxClock == 10001    \* the last reading of Date.now()
Timeout == 5000      \* the delay of setTimeout, in ms

RECURSIVE NumberToString(_)
NumberToString(n) ==
  IF n < 10 THEN <<Digits[n + 1]>>
  ELSE NumberToString(n \div 10) \o <<Digits[(n % 10) + 1]>>

\* call numbers the calls of showNotification; it is no field of the
\* program's object, and tells apart two notifications of one id
NewNotification(message) ==
  [id |-> NumberToString(clock), message |-> message, call |-> calls + 1]

\* prevNotifications.filter(notification => notification.id !== id)
WithoutId(prevNotifications, id) ==
  Filter(prevNotifications, LAMBDA notification : notification.id # id)

\* showNotification(message): the entry is appended and its timer is set
Show(message) ==
  /\ calls < MaxCalls
  /\ LET newNotification == NewNotification(message)
     IN /\ notificationList' = Append(notificationList, newNotification)
        /\ timers' = Append(timers, [id |-> newNotification.id,
                                     due |-> clock + Timeout,
                                     call |-> newNotification.call])
  /\ calls' = calls + 1
  /\ UNCHANGED <<envVars, navVars, storeVars, authVars, dashboardVars,
                 viewerVars, adapterVars, normalizerVars, notifications,
                 clock>>

\* time passes
Tick(ms) ==
  /\ clock + ms <= MaxClock
  /\ (clock + ms) % Timeout <= MaxDrift
  /\ clock' = clock + ms
  /\ UNCHANGED <<envVars, navVars, storeVars, authVars, dashboardVars,
                 viewerVars, adapterVars, normalizerVars, notifications,
                 notificationList, timers, calls>>

\* The callback of the timer that is due first runs, at its time or later:
\* timers of one delay run in the order they were set.
TimerFires ==
  /\ timers # <<>>
  /\ Head(timers).due <= clock
  /\ notificationList' = WithoutId(notificationList, Head(timers).id)
  /\ timers' = Tail(timers)
  /\ UNCHANGED <<envVars, navVars, storeVars, authVars, dashboardVars,
                 viewerVars, adapterVars, normalizerVars, notifications,
                 clock, calls>>

Messages == {"saved", "failed"}

\* The provider alone: nothing signed in, nothing fetched.
InitNotify ==
  /\ InitDashboard
  /\ InitNotifier
  /\ NoViewer
  /\ tzOffset = 0
  /\ now = March10 + 270
  /\ nodeEnvDevelopment = FALSE
  /\ enrollmentsCol = <<>>
  /\ coursesCol = Courses
  /\ modulesCol = Modules
  /\ schedulesCol = <<>>
  /\ SignedOut

NextNotify ==
  \/ \E message \in Messages : Show(message)
  \/ \E ms \in {1, Timeout} : Tick(ms)
  \/ TimerFires

SpecNotify == InitNotify /\ [][NextNotify]_vars

CallsOf(list) == {list[k].call : k \in 1..Len(list)}

\* C28: the notifications in the list are those whose own timer has not
\* fired: a notification stays until its timer fires, a timer removes the
\* notification it was set for and no other, whatever the times of the
\* calls, and the list is empty when every timer has fired.
C28_RemovedByOwnTimer == CallsOf(notificationList) = CallsOf(timers)

=============================================================================
